---- MODULE Spec2Model ----
(***************************************************************************)
(* Model of cert-parser: the railway Result core, the five-stage pipeline  *)
(* (pipeline.py), the transactional-replace repository (repository.py),    *)
(* the CMS master-list parser (cms_parser.py), the execution contexts      *)
(* (execution.py), the failure factories (result_failures.py), the HTTP    *)
(* adapters (http_client.py) and the manual trigger (asgi.py).             *)
(***************************************************************************)
EXTENDS Integers, Sequences, FiniteSets, TLC

VARIABLES
    pc,         \* position of run_pipeline: which port is called next
    calls,      \* port invocations of the current run: <<[port, arg, ret]>>
    cur,        \* Result at the head of the flat_map chain
    result,     \* value returned by run_pipeline (NoResult while running)
    db,         \* committed rows of the four tables
    tx,         \* writes of the open transaction (deleted / inserted rows)
    spc,        \* position of PsycopgCertificateRepository.store
    sidx,       \* index of the next SQL statement of the transaction
    spayload,   \* payload passed to store
    sresult,    \* Result returned by store
    sfault,     \* kind of fault that ended the store call ("none" if none)
    dbBefore,   \* committed rows when store was called
    raw,        \* bytes handed to CmsMasterListParser.parse
    ppc,        \* position of the parser: "idle", "ready" or "parsed"
    presult,    \* Result returned by parse
    uuids,      \* number of uuid4() identifiers generated so far
    runDb,      \* committed rows when the current run_pipeline call started
    rcall,      \* the Result operation under way: its name and arguments
    rout,       \* what that operation did: the Result returned or the fault raised
    rinvoked,   \* arguments the caller-supplied function was invoked with
    rawait,     \* the async operation suspended at `await mapper(v)`, if any
    ectxs,      \* execution contexts handed to the constructor, as listed
    eonion,     \* indices of the contexts, outermost execute() frame first
    edepth,     \* number of execute() frames currently entered
    ephase,     \* "idle", "entering", "leaving", "done" or "rejected"
    eout,       \* outcome travelling outwards: a returned Result or a fault
    etrace,     \* observable events: enter / comp / commit / rollback / leave
    plog,       \* log events emitted by the latest parse call
    hadapter,   \* HTTP adapter call under way: "access_token", "sfc_token", "download"
    hattempts,  \* outcome of every attempt of that call, in order
    hphase,     \* "idle", "attempting", "backoff", "finished" or "done"
    hresult,    \* Result the adapter call returned
    tinit,      \* asgi._pipeline_fn is set (not None)
    tlifespan,  \* asgi.lifespan startup: "not_entered" or "failed"
    terror,     \* asgi._error_message
    tphase,     \* POST /trigger: "idle", "running" or "responded"
    tresponse,  \* the JSONResponse of the latest POST /trigger
    csess,      \* overlapping store() calls: the transaction of each caller
    ccalls      \* number of store() calls begun by those callers

pvars == <<pc, calls, cur, result, runDb>>
svars == <<db, tx, spc, sidx, spayload, sresult, sfault, dbBefore>>
xvars == <<raw, ppc, presult, uuids>>
rvars == <<rcall, rout, rinvoked, rawait>>
evars == <<ectxs, eonion, edepth, ephase, eout, etrace>>
hvars == <<hadapter, hattempts, hphase, hresult>>
tvars == <<tinit, tlifespan, terror, tphase, tresponse>>
cvars == <<csess, ccalls>>
avars == <<plog, hvars, tvars, cvars>>
lvars == <<rvars, evars, avars>>
vars == <<pvars, svars, xvars, lvars>>

(***************************************************************************)
(* Result core (railway/result.py, railway/failure.py)                     *)
(***************************************************************************)

\* FailureDescription(code, message, exception); the timestamp is dropped.
FailureDescription(code, message, exception) ==
    [code |-> code, message |-> message, exception |-> exception]

\* Success(value)
Success(v) == [ok |-> TRUE, value |-> v]

\* Failure(error)
Failure(err) == [ok |-> FALSE, error |-> err]

\* Result.failure(code, message, exception)
ResultFailure(code, message, exception) ==
    Failure(FailureDescription(code, message, exception))

\* How a call ends: it returns a value, returns None, or raises an Exception.
\* A caller-supplied function is a function from its argument to such an
\* outcome; an optional argument is Returned(v) or ReturnedNone.
Raised(exc) == [raised |-> TRUE, exc |-> exc]
Returned(v) == [raised |-> FALSE, value |-> v]
ReturnedNone == [raised |-> FALSE]
IsNone(o) == "value" \notin DOMAIN o

\* Success.__init__(value): "if value is None: raise TypeError"
NewSuccess_Unchecked(value) ==
    Returned(IF IsNone(value) THEN [ok |-> TRUE] ELSE Success(value.value))
NewSuccess(value) ==
    IF IsNone(value) THEN Raised("TypeError") ELSE Returned(Success(value.value))

\* Failure.__init__(error): "if error is None: raise TypeError"
NewFailure(error) ==
    IF IsNone(error) THEN Raised("TypeError") ELSE Returned(Failure(error.value))

\* what an operation did: its outcome and the arguments with which it
\* invoked the caller-supplied function, in order
Done(out, invoked) == [out |-> out, invoked |-> invoked]

\* Result.map: Success(v) -> Success(mapper(v)); Failure(err) -> Failure(err)
Map_InvokesOnFailure(r, mapper) ==
    LET arg == IF r.ok THEN r.value ELSE CHOOSE v \in DOMAIN mapper : TRUE
        m == mapper[arg]
    IN IF r.ok
         THEN Done(IF m.raised THEN m ELSE NewSuccess(m), <<arg>>)
         ELSE Done(IF m.raised THEN m ELSE NewFailure(Returned(r.error)), <<arg>>)
Map(r, mapper) ==
    IF r.ok
      THEN LET m == mapper[r.value]
           IN Done(IF m.raised THEN m ELSE NewSuccess(m), <<r.value>>)
      ELSE Done(NewFailure(Returned(r.error)), <<>>)

\* Result.map_failure: Success -> self; Failure(err) -> Failure(mapper(err))
MapFailure(r, mapper) ==
    IF r.ok
      THEN Done(Returned(r), <<>>)
      ELSE LET m == mapper[r.error]
           IN Done(IF m.raised THEN m ELSE NewFailure(m), <<r.error>>)

\* Result.flat_map, "case Success(v): return mapper(v)": is the mapper invoked?
FlatMapInvokes_Always(r) == TRUE
FlatMapInvokes(r) == r.ok

\* Result.flat_map, "case Failure(err): return Failure(err)"
FlatMapSkip_Relabel(r) ==
    Failure(FailureDescription("TECHNICAL_ERROR", r.error.message, r.error.exception))
FlatMapSkip(r) == Failure(r.error)

\* Result.flat_map as a whole: the mapper's outcome, or the Failure passed on
FlatMap(r, mapper) ==
    IF FlatMapInvokes(r)
      THEN Done(mapper[r.value], <<r.value>>)
      ELSE Done(Returned(FlatMapSkip(r)), <<>>)

\* Result.recover: Success -> self; Failure(err) -> Success(recovery_fn(err))
Recover_KeepsFailure(r, recovery_fn) == Done(Returned(r), <<>>)
Recover(r, recovery_fn) ==
    IF r.ok
      THEN Done(Returned(r), <<>>)
      ELSE LET m == recovery_fn[r.error]
           IN Done(IF m.raised THEN m ELSE NewSuccess(m), <<r.error>>)

\* Result.from_computation(computation, error_code, error_message): the
\* try block holds both the call and the construction of the Success
FromComputation_DropsCause(outcome, error_code, error_message) ==
    IF outcome.raised \/ IsNone(outcome)
      THEN ResultFailure(error_code, error_message, "none")
      ELSE Success(outcome.value)
FromComputation(outcome, error_code, error_message) ==
    IF outcome.raised
      THEN ResultFailure(error_code, error_message, outcome.exc)
      ELSE LET made == NewSuccess(outcome)
           IN IF made.raised
                THEN ResultFailure(error_code, error_message, made.exc)
                ELSE made.value

\* Result.success(value), Result.failure_from(error)
ResultSuccess(value) == NewSuccess(value)
FailureFrom(error) == NewFailure(error)

\* Result.from_optional(value, error_message, error_code)
FromOptional(value, error_message, error_code) ==
    IF ~IsNone(value)
      THEN ResultSuccess(value)
      ELSE Returned(ResultFailure(error_code, error_message, "none"))

\* Result.ensure(predicate, error): flat_map over
\* "Result.success(v) if predicate(v) else Result.failure_from(error)"
Ensure(r, predicate, error) ==
    FlatMap(r, [v \in DOMAIN predicate |->
                  LET holds == predicate[v]
                  IN IF holds.raised THEN holds
                     ELSE IF holds.value THEN ResultSuccess(Returned(v))
                     ELSE FailureFrom(error)])

\* Result.combine(ra, rb, combiner):
\* ra.flat_map(lambda a: rb.map(lambda b: combiner(a, b)))
Combine_SecondFirst(ra, rb, combiner) ==
    LET inner(b) == Map(ra, [a \in {q[1] : q \in DOMAIN combiner} |->
                               combiner[<<a, b>>]])
    IN IF FlatMapInvokes(rb)
         THEN Done(inner(rb.value).out,
                   [i \in DOMAIN inner(rb.value).invoked |-> <<ra.value, rb.value>>])
         ELSE Done(Returned(FlatMapSkip(rb)), <<>>)
Combine(ra, rb, combiner) ==
    LET inner(a) == Map(rb, [b \in {q[2] : q \in DOMAIN combiner} |->
                               combiner[<<a, b>>]])
    IN IF FlatMapInvokes(ra)
         THEN Done(inner(ra.value).out,
                   [i \in DOMAIN inner(ra.value).invoked |-> <<ra.value, rb.value>>])
         ELSE Done(Returned(FlatMapSkip(ra)), <<>>)

\* Result.combine3(ra, rb, rc, combiner): ra.flat_map(lambda a:
\* rb.flat_map(lambda b: rc.map(lambda c: combiner(a, b, c))))
Combine3(ra, rb, rc, combiner) ==
    LET inner(a, b) == Map(rc, [c \in {q[3] : q \in DOMAIN combiner} |->
                                  combiner[<<a, b, c>>]])
    IN IF ~FlatMapInvokes(ra) THEN Done(Returned(FlatMapSkip(ra)), <<>>)
       ELSE IF ~FlatMapInvokes(rb) THEN Done(Returned(FlatMapSkip(rb)), <<>>)
       ELSE Done(inner(ra.value, rb.value).out,
                 [i \in DOMAIN inner(ra.value, rb.value).invoked |->
                     <<ra.value, rb.value, rc.value>>])

\* Result.all_of(results): the loop from element i on, `values` collected so far
RECURSIVE AllOfFrom(_, _, _)
AllOfFrom(results, i, values) ==
    IF i > Len(results)
      THEN NewSuccess(Returned(values))
      ELSE IF results[i].ok
             THEN AllOfFrom(results, i + 1, Append(values, results[i].value))
             ELSE NewFailure(Returned(results[i].error))

AllOf_LastFailure(results) ==
    LET failed == {i \in DOMAIN results : ~results[i].ok}
    IN IF failed = {}
         THEN AllOfFrom(results, 1, <<>>)
         ELSE NewFailure(Returned(
                results[CHOOSE i \in failed : \A j \in failed : j <= i].error))
AllOf(results) == AllOfFrom(results, 1, <<>>)

\* the Failure built by the async variants when the awaited mapper raises
AsyncFailure(exc) ==
    Failure(FailureDescription("EXTERNAL_SERVICE_ERROR", "Async operation failed", exc))

\* Result.map_async: the try block holds the await and the Success construction
MapAsync(r, mapper) ==
    IF r.ok
      THEN LET m == mapper[r.value]
               made == NewSuccess(m)
           IN Done(IF m.raised THEN Returned(AsyncFailure(m.exc))
                   ELSE IF made.raised THEN Returned(AsyncFailure(made.exc))
                   ELSE made,
                   <<r.value>>)
      ELSE Done(NewFailure(Returned(r.error)), <<>>)

\* Result.flat_map_async
FlatMapAsync(r, mapper) ==
    IF r.ok
      THEN LET m == mapper[r.value]
           IN Done(IF m.raised THEN Returned(AsyncFailure(m.exc)) ELSE m, <<r.value>>)
      ELSE Done(NewFailure(Returned(r.error)), <<>>)

\* n consecutive flat_map calls on a Failure (the tail of the chain)
RECURSIVE SkipN(_, _)
SkipN(r, n) == IF n = 0 THEN r ELSE SkipN(FlatMapSkip(r), n - 1)

(***************************************************************************)
(* Substitute ports: what a collaborator may return                        *)
(***************************************************************************)
NoException == "none"

AccessTokens == {"tokA", "tokB"}
SfcTokens    == {"sfc1", "sfc2"}
Binaries     == {"bin1", "bin2"}
Payloads     == {"payload1", "payload2"}
RowCounts    == {0, 42}

PortErrorCodes == {"AUTHENTICATION_ERROR", "EXTERNAL_SERVICE_ERROR",
                   "TECHNICAL_ERROR", "DATABASE_ERROR"}
PortMessages   == {"bad creds", "503"}

PortFailures ==
    {ResultFailure(c, m, NoException) : c \in PortErrorCodes, m \in PortMessages}

PortReturns(values) == {Success(v) : v \in values} \cup PortFailures

NoArg    == [kind |-> "none"]
NoResult == [ok |-> FALSE, error |-> FailureDescription("", "", "pending")]

\* AuthCredentials(access_token, sfc_token)
AuthCredentials_Swapped(access_token, sfc_token) ==
    [access_token |-> sfc_token, sfc_token |-> access_token]
AuthCredentials(access_token, sfc_token) ==
    [access_token |-> access_token, sfc_token |-> sfc_token]

\* the value a flat_map mapper receives
ArgOf(r) == IF r.ok THEN r.value ELSE NoArg

Call(port, arg, ret) == [port |-> port, arg |-> arg, ret |-> ret]

(***************************************************************************)
(* Domain models (domain/models.py)                                        *)
(***************************************************************************)
NoneStr == "None"      \* None in an optional text / bytes / datetime field
NoneId  == 0           \* None in an optional UUID field; real ids are >= 1

CertificateRecord(id, certificate, ski, aki, issuer, x_500_issuer, source, isn) ==
    [certificate |-> certificate, id |-> id,
     subject_key_identifier |-> ski, authority_key_identifier |-> aki,
     issuer |-> issuer, x_500_issuer |-> x_500_issuer, source |-> source,
     isn |-> isn, updated_at |-> NoneStr]

CrlRecord(id, crl, source, issuer, country) ==
    [crl |-> crl, id |-> id, source |-> source, issuer |-> issuer,
     country |-> country, updated_at |-> NoneStr]

RevokedCertificateRecord(id, source, country, isn, crl, reason, date) ==
    [id |-> id, source |-> source, country |-> country, isn |-> isn,
     crl |-> crl, revocation_reason |-> reason, revocation_date |-> date,
     updated_at |-> NoneStr]

MasterListPayload(root_cas, dscs, crls, revoked_certificates) ==
    [root_cas |-> root_cas, dscs |-> dscs, crls |-> crls,
     revoked_certificates |-> revoked_certificates]

total_certificates(p) == Len(p.root_cas) + Len(p.dscs)

total_items_NoRevoked(p) == total_certificates(p) + Len(p.crls)
total_items(p) ==
    total_certificates(p) + Len(p.crls) + Len(p.revoked_certificates)

(***************************************************************************)
(* PsycopgCertificateRepository (adapters/repository.py)                   *)
(***************************************************************************)
Tables == {"root_ca", "dsc", "crls", "revoked_certificate_list"}

\* attributes read from the record to build the parameters of each INSERT
InsertAttributes(table) ==
    CASE table = "root_ca" ->
           {"id", "certificate", "subject_key_identifier",
            "authority_key_identifier", "issuer", "master_list_issuer",
            "x_500_issuer", "source", "isn", "updated_at"}
      [] table = "dsc" ->
           {"id", "certificate", "subject_key_identifier",
            "authority_key_identifier", "issuer", "x_500_issuer", "source",
            "isn", "updated_at"}
      [] table = "crls" ->
           {"id", "crl", "source", "issuer", "country", "updated_at"}
      [] table = "revoked_certificate_list" ->
           {"id", "source", "country", "isn", "crl", "revocation_reason",
            "revocation_date", "updated_at"}

\* _delete_all: the four DELETE statements, in the order they are issued
DeleteAll_DscSkipped ==
    <<[op |-> "delete", table |-> "revoked_certificate_list"],
      [op |-> "delete", table |-> "crls"],
      [op |-> "delete", table |-> "root_ca"]>>
DeleteAll_ParentFirst ==
    <<[op |-> "delete", table |-> "crls"],
      [op |-> "delete", table |-> "revoked_certificate_list"],
      [op |-> "delete", table |-> "dsc"],
      [op |-> "delete", table |-> "root_ca"]>>
DeleteAll ==
    <<[op |-> "delete", table |-> "revoked_certificate_list"],
      [op |-> "delete", table |-> "crls"],
      [op |-> "delete", table |-> "dsc"],
      [op |-> "delete", table |-> "root_ca"]>>

\* one INSERT per record of a list (_insert_root_cas, _insert_dscs, ...)
InsertEach(table, records) ==
    [i \in 1..Len(records) |-> [op |-> "insert", table |-> table, rec |-> records[i]]]

\* _insert_all: the INSERT statements, in the order they are issued
InsertAll_RevokedFirst(payload) ==
    InsertEach("root_ca", payload.root_cas)
      \o InsertEach("dsc", payload.dscs)
      \o InsertEach("revoked_certificate_list", payload.revoked_certificates)
      \o InsertEach("crls", payload.crls)
InsertAll(payload) ==
    InsertEach("root_ca", payload.root_cas)
      \o InsertEach("dsc", payload.dscs)
      \o InsertEach("crls", payload.crls)
      \o InsertEach("revoked_certificate_list", payload.revoked_certificates)

\* _insert_all: the returned row count (sum of the list lengths)
InsertAllRows(payload) ==
    ((Len(payload.root_cas) + Len(payload.dscs)) + Len(payload.crls))
      + Len(payload.revoked_certificates)

\* statements of one _transactional_replace
Statements(payload) == DeleteAll \o InsertAll(payload)

EmptyTx ==
    [deleted |-> [t \in Tables |-> {}], inserted |-> [t \in Tables |-> {}]]

\* rows of table t that the open transaction sees
View(t) == (db[t] \ tx.deleted[t]) \cup tx.inserted[t]

Ids(rows) == {r.id : r \in rows}

\* committed rows after the transaction is rolled back
Rollback_KeepsWrites == [t \in Tables |-> View(t)]
Rollback == db

\* store(): the Result built from the outcome of _transactional_replace
StoreResult(outcome) ==
    FromComputation(outcome, "DATABASE_ERROR",
                    "Failed to persist certificates to database")

\* an exception leaves the `with` block: rollback, then store returns Failure
StoreRaises(kind, exc) ==
    /\ db' = Rollback
    /\ tx' = EmptyTx
    /\ sresult' = StoreResult(Raised(exc))
    /\ sfault' = kind
    /\ spc' = "done"
    /\ UNCHANGED <<sidx, spayload, dbBefore>>

\* the statement at sidx has been executed
NextStatement ==
    /\ sidx' = sidx + 1
    /\ spc' = IF sidx = Len(Statements(spayload)) THEN "commit" ELSE "stmt"
    /\ UNCHANGED <<db, spayload, sresult, sfault, dbBefore>>

\* repository.store(payload) is called
StoreCall(p) ==
    /\ spc = "idle"
    /\ spc' = "connect"
    /\ spayload' = p
    /\ dbBefore' = db
    /\ sresult' = NoResult
    /\ sfault' = "none"
    /\ sidx' = 0
    /\ tx' = EmptyTx
    /\ UNCHANGED <<db, pvars, xvars, lvars>>

\* store has returned its Result to the caller
StoreReturn ==
    /\ spc = "done"
    /\ spc' = "idle"
    /\ sidx' = 0
    /\ spayload' = MasterListPayload(<<>>, <<>>, <<>>, <<>>)
    /\ sresult' = NoResult
    /\ sfault' = "none"
    /\ dbBefore' = db
    /\ UNCHANGED <<db, tx, pvars, xvars, lvars>>

\* psycopg.connect(dsn), conn.transaction(), conn.cursor()
Connect ==
    /\ spc = "connect"
    /\ spc' = "stmt"
    /\ sidx' = 1
    /\ tx' = EmptyTx
    /\ UNCHANGED <<db, spayload, sresult, sfault, dbBefore, pvars, xvars, lvars>>

\* cur.execute("DELETE FROM <table>")
DeleteStmt ==
    /\ spc = "stmt"
    /\ LET stmt == Statements(spayload)[sidx]
       IN /\ stmt.op = "delete"
          /\ IF /\ stmt.table = "crls"
                /\ \E r \in View("revoked_certificate_list") : r.crl \in Ids(View("crls"))
               THEN StoreRaises("constraint", "ForeignKeyViolation")
               ELSE /\ tx' = [deleted |-> [tx.deleted EXCEPT ![stmt.table] = @ \cup db[stmt.table]],
                              inserted |-> [tx.inserted EXCEPT ![stmt.table] = {}]]
                    /\ NextStatement
    /\ UNCHANGED <<pvars, xvars, lvars>>

\* cur.execute(_INSERT_..., (rec.id, ...)) for the next record of the payload
InsertStmt ==
    /\ spc = "stmt"
    /\ LET stmt == Statements(spayload)[sidx]
       IN /\ stmt.op = "insert"
          /\ IF ~(InsertAttributes(stmt.table) \subseteq DOMAIN stmt.rec)
               THEN StoreRaises("attribute", "AttributeError")
             ELSE IF stmt.rec.id \in Ids(View(stmt.table))
               THEN StoreRaises("constraint", "UniqueViolation")
             ELSE IF /\ stmt.table = "revoked_certificate_list"
                     /\ stmt.rec.crl # NoneId
                     /\ stmt.rec.crl \notin Ids(View("crls"))
               THEN StoreRaises("constraint", "ForeignKeyViolation")
             ELSE /\ tx' = [tx EXCEPT !.inserted[stmt.table] = @ \cup {stmt.rec}]
                  /\ NextStatement
    /\ UNCHANGED <<pvars, xvars, lvars>>

\* leaving the `with` block normally: COMMIT, then `return rows`
Commit ==
    /\ spc = "commit"
    /\ db' = [t \in Tables |-> View(t)]
    /\ tx' = EmptyTx
    /\ sresult' = StoreResult(Returned(InsertAllRows(spayload)))
    /\ spc' = "done"
    /\ UNCHANGED <<sidx, spayload, sfault, dbBefore, pvars, xvars, lvars>>

\* the connection fails (connect, any statement, or the commit)
ConnectivityFault ==
    /\ spc \in {"connect", "stmt", "commit"}
    /\ StoreRaises("connectivity", "OperationalError")
    /\ UNCHANGED <<pvars, xvars, lvars>>

(***************************************************************************)
(* CmsMasterListParser (adapters/cms_parser.py)                            *)
(*                                                                         *)
(* Raw input is abstract: either bytes that are no SignedData envelope     *)
(* (kind "empty", "random", "truncated", "wrong_type") or an envelope      *)
(* whose embedded certificates and CRLs are DER blobs described by what    *)
(* the X.509 decoders return for them.  uuid4() is a fresh id: the         *)
(* counter `next` is threaded through every record construction.           *)
(***************************************************************************)
Raises(exc, next) == [raised |-> TRUE, exc |-> exc, next |-> next]
Returns(v, next) == [raised |-> FALSE, value |-> v, next |-> next]

\* cms.ContentInfo.load(raw_bin)
LoadContentInfo_Lenient(raw_bin, next) ==
    IF raw_bin.kind \in {"empty", "random", "truncated"}
      THEN Returns([kind |-> "signed_data", certificates |-> [present |-> FALSE],
                    content |-> [present |-> TRUE, wellformed |-> TRUE,
                                 cert_list |-> <<>>],
                    crls |-> [present |-> FALSE]],
                   next)
      ELSE Returns(raw_bin, next)
LoadContentInfo(raw_bin, next) ==
    IF raw_bin.kind \in {"empty", "random", "truncated"}
      THEN Raises("ValueError", next)
      ELSE Returns(raw_bin, next)

\* A field of a decoded SignedData is the decoded value or, for an OPTIONAL
\* field that the envelope leaves out, the decoder's VOID placeholder
\* ([present |-> FALSE]); VOID is not None.  Python's None ([none |-> TRUE])
\* is never the field of a decoded envelope: only a substitute signed_data
\* object hands it to the extractors, whose "is None" guards are for it.
NoneField == [present |-> FALSE, none |-> TRUE]
IsNoneField(field) == "none" \in DOMAIN field

\* signed_data["certificates"], signed_data["crls"],
\* signed_data["encap_content_info"]["content"]
SignedDataField(signed_data, name, next) ==
    IF signed_data.kind # "signed_data"
      THEN Raises("TypeError", next)
      ELSE Returns(signed_data[name], next)

\* _extract_ski: hex digest, or None when the extension is absent
ExtractSki(cert) == cert.ski

\* _extract_aki: hex key identifier, or None when absent
ExtractAki(cert) == cert.aki

\* _der_to_certificate_record(der_bytes, source)
DerToCertificateRecord(der, source, next) ==
    IF ~der.wellformed
      THEN Raises("ValueError", next)
      ELSE Returns(CertificateRecord(next + 1, der.der, ExtractSki(der),
                                    ExtractAki(der), der.issuer, der.x500,
                                    source, der.serial),
                  next + 1)

\* the loop `for cert in ...: records.append(_der_to_certificate_record(...))`
RECURSIVE CertificateRecords_SkipsBad(_, _, _, _)
CertificateRecords_SkipsBad(ders, source, records, next) ==
    IF ders = <<>>
      THEN Returns(records, next)
      ELSE LET rec == DerToCertificateRecord(Head(ders), source, next)
           IN IF rec.raised
                THEN CertificateRecords_SkipsBad(Tail(ders), source, records, next)
                ELSE CertificateRecords_SkipsBad(Tail(ders), source,
                                                 Append(records, rec.value), rec.next)
RECURSIVE CertificateRecords(_, _, _, _)
CertificateRecords(ders, source, records, next) ==
    IF Len(records) = Len(ders)
      THEN Returns(records, next)
      ELSE LET rec == DerToCertificateRecord(ders[Len(records) + 1], source, next)
           IN IF rec.raised
                THEN rec
                ELSE CertificateRecords(ders, source, Append(records, rec.value), rec.next)

\* _extract_outer_certificates(signed_data, source)
ExtractOuterCertificates(signed_data, source, next) ==
    LET certs_set == SignedDataField(signed_data, "certificates", next)
    IN IF certs_set.raised THEN certs_set
       ELSE IF IsNoneField(certs_set.value) THEN Returns(<<>>, next)
       \* the loop over VOID has no iteration
       ELSE IF ~certs_set.value.present THEN Returns(<<>>, next)
       ELSE CertificateRecords(certs_set.value.items, source, <<>>, next)

\* _extract_inner_certificates(signed_data, source)
ExtractInnerCertificates_VoidAsNone(signed_data, source, next) ==
    LET encap_content == SignedDataField(signed_data, "content", next)
    IN IF encap_content.raised THEN encap_content
       ELSE IF ~encap_content.value.present THEN Returns(<<>>, next)
       ELSE IF ~encap_content.value.wellformed THEN Raises("ValueError", next)
       ELSE CertificateRecords(encap_content.value.cert_list, source, <<>>, next)
ExtractInnerCertificates(signed_data, source, next) ==
    LET encap_content == SignedDataField(signed_data, "content", next)
    IN IF encap_content.raised THEN encap_content
       ELSE IF IsNoneField(encap_content.value) THEN Returns(<<>>, next)
       \* VOID.native is None and _CscaMasterList.load(None) raises
       ELSE IF ~encap_content.value.present THEN Raises("TypeError", next)
       ELSE IF ~encap_content.value.wellformed THEN Raises("ValueError", next)
       ELSE CertificateRecords(encap_content.value.cert_list, source, <<>>, next)

\* _extract_country_from_issuer: the C= attribute, or None
ExtractCountryFromIssuer_Default(crl_obj) ==
    IF crl_obj.country = NoneStr THEN "XX" ELSE crl_obj.country
ExtractCountryFromIssuer(crl_obj) == crl_obj.country

\* _build_revoked_record(revoked_cert, crl_id, source, country)
BuildRevokedRecord_NoRef(revoked_cert, crl_id, source, country, id) ==
    RevokedCertificateRecord(id, source, country, revoked_cert.serial, NoneId,
                             revoked_cert.reason, revoked_cert.date)
BuildRevokedRecord(revoked_cert, crl_id, source, country, id) ==
    RevokedCertificateRecord(id, source, country, revoked_cert.serial, crl_id,
                             revoked_cert.reason, revoked_cert.date)

\* _parse_single_crl(crl_der, source): <<CrlRecord, revoked records>>
ParseSingleCrl(crl_der, source, next) ==
    IF ~crl_der.wellformed
      THEN Raises("ValueError", next)
      ELSE LET country == ExtractCountryFromIssuer(crl_der)
               crl_record == CrlRecord(next + 1, crl_der.der, source,
                                       crl_der.issuer, country)
               revoked_records ==
                   [j \in 1..Len(crl_der.entries) |->
                       BuildRevokedRecord(crl_der.entries[j], crl_record.id,
                                          source, country, next + 1 + j)]
           IN Returns(<<crl_record, revoked_records>>,
                     next + 1 + Len(crl_der.entries))

\* the loop of _extract_crls over signed_data["crls"]
RECURSIVE CrlRecords(_, _, _, _, _, _)
CrlRecords(ders, i, source, crl_records, revoked_records, next) ==
    IF i > Len(ders)
      THEN Returns(<<crl_records, revoked_records>>, next)
      ELSE LET one == ParseSingleCrl(ders[i], source, next)
           IN IF one.raised
                THEN one
                ELSE CrlRecords(ders, i + 1, source,
                                Append(crl_records, one.value[1]),
                                revoked_records \o one.value[2], one.next)

\* _extract_crls(signed_data, source)
ExtractCrls(signed_data, source, next) ==
    LET crls_set == SignedDataField(signed_data, "crls", next)
    IN IF crls_set.raised THEN crls_set
       ELSE IF IsNoneField(crls_set.value) THEN Returns(<<<<>>, <<>>>>, next)
       \* the loop over VOID has no iteration
       ELSE IF ~crls_set.value.present THEN Returns(<<<<>>, <<>>>>, next)
       ELSE CrlRecords(crls_set.value.items, 1, source, <<>>, <<>>, next)

\* _do_parse: all_root_cas = inner_certs + outer_certs
AllRootCas_OuterFirst(inner_certs, outer_certs) == outer_certs \o inner_certs
AllRootCas(inner_certs, outer_certs) == inner_certs \o outer_certs

\* CmsMasterListParser._do_parse(raw_bin)
DoParse(raw_bin, next) ==
    LET source == "icao-masterlist"
        content_info == LoadContentInfo(raw_bin, next)
    IN IF content_info.raised THEN content_info
       ELSE
       LET signed_data == content_info.value
           outer_certs == ExtractOuterCertificates(signed_data, source, next)
       IN IF outer_certs.raised THEN outer_certs
          ELSE
          LET inner_certs == ExtractInnerCertificates(signed_data, source, outer_certs.next)
          IN IF inner_certs.raised THEN inner_certs
             ELSE
             LET crls == ExtractCrls(signed_data, source, inner_certs.next)
             IN IF crls.raised THEN crls
                ELSE Returns(MasterListPayload(
                                AllRootCas(inner_certs.value, outer_certs.value),
                                <<>>, crls.value[1], crls.value[2]),
                            crls.next)

\* log.warning("certificate.missing_ski", ...) of _der_to_certificate_record
DerLog(der) ==
    IF ExtractSki(der) = NoneStr
      THEN <<[event |-> "certificate.missing_ski", issuer |-> der.issuer,
              serial |-> der.serial]>>
      ELSE <<>>

\* the events of the loop over certificates, up to the first one that fails
RECURSIVE CertificatesLog(_, _)
CertificatesLog(ders, i) ==
    IF i > Len(ders) \/ ~ders[i].wellformed
      THEN <<>>
      ELSE DerLog(ders[i]) \o CertificatesLog(ders, i + 1)

\* the events _do_parse emits: one warning per certificate without SKI, in
\* the order the certificates are converted, and "parser.complete" at the end
DoParseLog(raw_bin) ==
    LET source == "icao-masterlist"
        content_info == LoadContentInfo(raw_bin, 0)
    IN IF content_info.raised \/ content_info.value.kind # "signed_data"
         THEN <<>>
       ELSE
       LET signed_data == content_info.value
           outer_certs == ExtractOuterCertificates(signed_data, source, 0)
           inner_certs == ExtractInnerCertificates(signed_data, source, 0)
           crls == ExtractCrls(signed_data, source, 0)
           outer_log == IF signed_data.certificates.present
                          THEN CertificatesLog(signed_data.certificates.items, 1)
                          ELSE <<>>
           inner_log == IF /\ signed_data.content.present
                           /\ signed_data.content.wellformed
                          THEN CertificatesLog(signed_data.content.cert_list, 1)
                          ELSE <<>>
       IN IF outer_certs.raised THEN outer_log
          ELSE IF inner_certs.raised \/ crls.raised THEN outer_log \o inner_log
          ELSE outer_log \o inner_log
                 \o <<[event |-> "parser.complete",
                       inner_certs |-> Len(inner_certs.value),
                       outer_certs |-> Len(outer_certs.value),
                       total_root_cas |->
                           Len(AllRootCas(inner_certs.value, outer_certs.value)),
                       crls |-> Len(crls.value[1]),
                       revoked |-> Len(crls.value[2])]>>

\* CmsMasterListParser.parse(raw_bin)
ParseMasterList(raw_bin, next) ==
    FromComputation(DoParse(raw_bin, next), "TECHNICAL_ERROR",
                    "Failed to parse CMS Master List binary")

(***************************************************************************)
(* run_pipeline (pipeline.py)                                              *)
(***************************************************************************)
\* no Result operation and no execution context is under way
\* the two callers of run_pipeline: scheduler._job and asgi.trigger
Sessions == {"scheduler", "trigger"}

IdleSession ==
    [pc |-> "idle", idx |-> 0, call |-> 0, overlaps |-> 0,
     payload |-> MasterListPayload(<<>>, <<>>, <<>>, <<>>),
     deleted |-> [t \in Tables |-> {}], inserted |-> [t \in Tables |-> {}],
     targets |-> {}, outcome |-> "none", result |-> NoResult]

NoCall == [op |-> "none"]
NoResponse == [status_code |-> 0]
NoOutcome == [raised |-> FALSE, pending |-> TRUE]

LibraryIdle ==
    /\ csess = [s \in Sessions |-> IdleSession]
    /\ ccalls = 0
    /\ tinit = FALSE
    /\ tlifespan = "not_entered"
    /\ terror = NoneStr
    /\ tphase = "idle"
    /\ tresponse = NoResponse
    /\ hadapter = "none"
    /\ hattempts = <<>>
    /\ hphase = "idle"
    /\ hresult = NoResult
    /\ rcall = NoCall
    /\ rout = NoOutcome
    /\ rinvoked = <<>>
    /\ rawait = NoCall
    /\ ectxs = <<>>
    /\ eonion = <<>>
    /\ edepth = 0
    /\ ephase = "idle"
    /\ eout = NoOutcome
    /\ etrace = <<>>

Init ==
    /\ pc = "ready"
    /\ calls = <<>>
    /\ cur = NoResult
    /\ result = NoResult
    /\ db = [t \in Tables |-> {}]
    /\ tx = EmptyTx
    /\ spc = "idle"
    /\ sidx = 0
    /\ spayload = MasterListPayload(<<>>, <<>>, <<>>, <<>>)
    /\ sresult = NoResult
    /\ sfault = "none"
    /\ dbBefore = [t \in Tables |-> {}]
    /\ raw = [kind |-> "empty"]
    /\ ppc = "idle"
    /\ presult = NoResult
    /\ uuids = 0
    /\ runDb = [t \in Tables |-> {}]
    /\ plog = <<>>
    /\ LibraryIdle

\* After a stage returned r: the next flat_map either invokes its mapper
\* (the next stage) or the remaining `skips` flat_maps pass the Failure on.
Advance(r, nextPc, skips) ==
    /\ cur' = r
    /\ IF FlatMapInvokes(r)
         THEN /\ pc' = nextPc
              /\ result' = IF nextPc = "done" THEN r ELSE NoResult
         ELSE /\ pc' = "done"
              /\ result' = SkipN(r, skips)

\* access_token_provider.acquire_token()
AcquireAccessToken(r) ==
    /\ pc = "ready"
    /\ calls' = <<Call("access_token_provider", NoArg, r)>>
    /\ runDb' = db
    /\ Advance(r, "sfc", 4)
    /\ UNCHANGED <<svars, xvars, lvars>>

\* _build_credentials(access_token, sfc_token_provider)
BuildCredentials(r) ==
    /\ pc = "sfc"
    /\ LET access_token == ArgOf(cur)
           ret == Map(r, [sfc_token \in SfcTokens |->
                            Returned(AuthCredentials(access_token, sfc_token))]).out.value
       IN /\ calls' = Append(calls, Call("sfc_token_provider", access_token, r))
          /\ Advance(ret, "download", 3)
    /\ UNCHANGED <<runDb, svars, xvars, lvars>>

\* .flat_map(downloader.download)
Download(r) ==
    /\ pc = "download"
    /\ calls' = Append(calls, Call("downloader", ArgOf(cur), r))
    /\ Advance(r, "parse", 2)
    /\ UNCHANGED <<runDb, svars, xvars, lvars>>

\* .flat_map(parser.parse)
Parse(r) ==
    /\ pc = "parse"
    /\ calls' = Append(calls, Call("parser", ArgOf(cur), r))
    /\ Advance(r, "store", 1)
    /\ UNCHANGED <<runDb, svars, xvars, lvars>>

\* .flat_map(repository.store)
Store(r) ==
    /\ pc = "store"
    /\ calls' = Append(calls, Call("repository", ArgOf(cur), r))
    /\ cur' = r
    /\ pc' = "done"
    /\ result' = r
    /\ UNCHANGED <<runDb, svars, xvars, lvars>>

\* run_pipeline has returned; the caller may run it again
Return ==
    /\ pc = "done"
    /\ pc' = "ready"
    /\ UNCHANGED <<calls, cur, result, runDb, svars, xvars, lvars>>

Next ==
    \/ \E r \in PortReturns(AccessTokens) : AcquireAccessToken(r)
    \/ \E r \in PortReturns(SfcTokens) : BuildCredentials(r)
    \/ \E r \in PortReturns(Binaries) : Download(r)
    \/ \E r \in PortReturns(Payloads) : Parse(r)
    \/ \E r \in PortReturns(RowCounts) : Store(r)
    \/ Return

Spec == Init /\ [][Next]_vars

(***************************************************************************)
(* The repository on its own: store() called with bounded payloads         *)
(***************************************************************************)
MaxRoot == 2    \* root-authority records per payload
MaxDsc  == 1    \* document-signer records per payload
MaxCrl  == 1    \* CRL records per payload
MaxRev  == 2    \* revoked-entry records per payload

PayloadTags == {"a", "b"}
RefKinds == {"ok", "null", "dangling"}

IdBase(tag) == IF tag = "a" THEN 100 ELSE 200

\* a payload with the given numbers of records; ids are distinct per tag
MkPayload(tag, nRoot, nDsc, nCrl, nRev, refKind) ==
    LET base == IdBase(tag)
        crlRef(j) ==
            CASE refKind = "dangling" -> base + 59
              [] refKind = "null" \/ nCrl = 0 -> NoneId
              [] OTHER -> base + 40 + (((j - 1) % nCrl) + 1)
    IN MasterListPayload(
         [i \in 1..nRoot |->
            CertificateRecord(base + i, "der", "ski", "aki", "CN=CA", "x500", tag, "0x1")],
         [i \in 1..nDsc |->
            CertificateRecord(base + 20 + i, "der", "ski", "aki", "CN=CA", "x500", tag, "0x2")],
         [i \in 1..nCrl |->
            CrlRecord(base + 40 + i, "crl", tag, "CN=CA", "XX")],
         [j \in 1..nRev |->
            RevokedCertificateRecord(base + 60 + j, tag, "XX", "0x3", crlRef(j),
                                     "keyCompromise", "2024-06-15")])

StorePayloads ==
    {MkPayload(tag, nRoot, nDsc, nCrl, nRev, refKind) :
        tag \in PayloadTags, nRoot \in 0..MaxRoot, nDsc \in 0..MaxDsc,
        nCrl \in 0..MaxCrl, nRev \in 0..MaxRev, refKind \in RefKinds}

NextStore ==
    \/ \E p \in StorePayloads : StoreCall(p)
    \/ Connect
    \/ DeleteStmt
    \/ InsertStmt
    \/ Commit
    \/ ConnectivityFault
    \/ StoreReturn

SpecStore == Init /\ [][NextStore]_vars

(***************************************************************************)
(* The parser on its own: parse() applied to bounded raw inputs            *)
(***************************************************************************)
MaxInnerCerts == 3   \* certificates in the embedded master list
MaxOuterCerts == 2   \* certificates in the outer envelope
MaxEnvelopeCrls == 2 \* revocation lists in the envelope

\* DER certificates, described by what x509.load_der_x509_certificate yields
CertA ==
    [der |-> "certA", wellformed |-> TRUE, issuer |-> "CN=CSCA A,C=DE",
     x500 |-> "x500A", serial |-> "0x1a", ski |-> "aa01", aki |-> "bb01"]
CertB ==
    [der |-> "certB", wellformed |-> TRUE, issuer |-> "CN=CSCA B,C=FR",
     x500 |-> "x500B", serial |-> "0x2b", ski |-> NoneStr, aki |-> NoneStr]
CertBad == [der |-> "certBad", wellformed |-> FALSE]

CertBlobs == {CertA, CertB, CertBad}

Entry(serial, reason) ==
    [serial |-> serial, reason |-> reason, date |-> "2024-06-15"]

\* DER revocation lists, described by what x509.load_der_x509_crl yields
Crl0 ==
    [der |-> "crl0", wellformed |-> TRUE, issuer |-> "CN=CSCA A,C=DE",
     country |-> "DE", entries |-> <<>>]
Crl2 ==
    [der |-> "crl2", wellformed |-> TRUE, issuer |-> "CN=CSCA X",
     country |-> NoneStr,
     entries |-> <<Entry("0x10", "keyCompromise"), Entry("0x11", NoneStr)>>]
Crl5 ==
    [der |-> "crl5", wellformed |-> TRUE, issuer |-> "CN=CSCA B,C=FR",
     country |-> "FR",
     entries |-> <<Entry("0x20", "keyCompromise"), Entry("0x21", NoneStr),
                   Entry("0x22", "superseded"), Entry("0x23", "keyCompromise"),
                   Entry("0x24", "cessationOfOperation")>>]
CrlBad == [der |-> "crlBad", wellformed |-> FALSE]

CrlBlobs == {Crl0, Crl2, Crl5, CrlBad}

SeqsUpTo(S, n) == UNION {[1..k -> S] : k \in 0..n}

\* an OPTIONAL field the envelope leaves out (decoded as VOID)
Absent == [present |-> FALSE]

Envelopes ==
    {[kind |-> "signed_data", certificates |-> certs, content |-> content, crls |-> crls] :
        certs \in {Absent} \cup
                  {[present |-> TRUE, items |-> c] : c \in SeqsUpTo(CertBlobs, MaxOuterCerts)},
        content \in {Absent, [present |-> TRUE, wellformed |-> FALSE]} \cup
                    {[present |-> TRUE, wellformed |-> TRUE, cert_list |-> c] :
                        c \in SeqsUpTo(CertBlobs, MaxInnerCerts)},
        crls \in {Absent} \cup
                 {[present |-> TRUE, items |-> c] : c \in SeqsUpTo(CrlBlobs, MaxEnvelopeCrls)}}

NotEnvelopes == {[kind |-> k] : k \in {"empty", "random", "truncated", "wrong_type"}}

RawInputs == NotEnvelopes \cup Envelopes

InitParse ==
    /\ pc = "ready"
    /\ calls = <<>>
    /\ cur = NoResult
    /\ result = NoResult
    /\ db = [t \in Tables |-> {}]
    /\ tx = EmptyTx
    /\ spc = "idle"
    /\ sidx = 0
    /\ spayload = MasterListPayload(<<>>, <<>>, <<>>, <<>>)
    /\ sresult = NoResult
    /\ sfault = "none"
    /\ dbBefore = [t \in Tables |-> {}]
    /\ raw \in RawInputs
    /\ ppc = "ready"
    /\ presult = NoResult
    /\ uuids = 0
    /\ runDb = [t \in Tables |-> {}]
    /\ plog = <<>>
    /\ LibraryIdle

\* parser.parse(raw) is called and returns
ParseCall ==
    /\ ppc = "ready"
    /\ presult' = ParseMasterList(raw, uuids)
    /\ uuids' = DoParse(raw, uuids).next
    /\ ppc' = "parsed"
    /\ plog' = DoParseLog(raw)
    /\ UNCHANGED <<raw, pvars, svars, rvars, evars, hvars, tvars, cvars>>

NextParse == ParseCall

SpecParse == InitParse /\ [][NextParse]_vars

(***************************************************************************)
(* The pipeline with the real parser and the real repository: substitute   *)
(* ports only for the two token providers and the downloader               *)
(***************************************************************************)
MaxUuids == 4   \* a new run starts only while fewer identifiers were generated

EnvelopeOf(certs, content, crls) ==
    [kind |-> "signed_data", certificates |-> certs, content |-> content,
     crls |-> crls]

\* eContent holding a CscaMasterList whose certList has no element
EmptyMasterList == [present |-> TRUE, wellformed |-> TRUE, cert_list |-> <<>>]

\* what the downloader may deliver
DownloadedBinaries ==
    {[kind |-> "random"], [kind |-> "wrong_type"],
     EnvelopeOf(Absent, Absent, [present |-> TRUE, items |-> <<Crl0>>]),
     EnvelopeOf(Absent, EmptyMasterList, Absent),
     EnvelopeOf(Absent, EmptyMasterList, [present |-> TRUE, items |-> <<Crl2>>]),
     EnvelopeOf(Absent, EmptyMasterList, [present |-> TRUE, items |-> <<Crl0, CrlBad>>]),
     EnvelopeOf(Absent,
                [present |-> TRUE, wellformed |-> TRUE, cert_list |-> <<CertA>>],
                [present |-> TRUE, items |-> <<Crl0>>])}

\* .flat_map(parser.parse) with CmsMasterListParser
ParseStage ==
    /\ pc = "parse"
    /\ LET r == ParseMasterList(ArgOf(cur), uuids)
       IN /\ calls' = Append(calls, Call("parser", ArgOf(cur), r))
          /\ Advance(r, "store", 1)
    /\ uuids' = DoParse(ArgOf(cur), uuids).next
    /\ plog' = DoParseLog(ArgOf(cur))
    /\ UNCHANGED <<runDb, raw, ppc, presult, svars, rvars, evars, hvars, tvars, cvars>>

\* .flat_map(repository.store): the mapper calls PsycopgCertificateRepository.store
StoreStage ==
    /\ pc = "store"
    /\ StoreCall(ArgOf(cur))

\* store returns its Result, which run_pipeline returns
StoreStageReturn ==
    /\ pc = "store"
    /\ spc = "done"
    /\ calls' = Append(calls, Call("repository", ArgOf(cur), sresult))
    /\ cur' = sresult
    /\ result' = sresult
    /\ pc' = "done"
    /\ spc' = "idle"
    /\ sidx' = 0
    /\ spayload' = MasterListPayload(<<>>, <<>>, <<>>, <<>>)
    /\ sresult' = NoResult
    /\ sfault' = "none"
    /\ dbBefore' = db
    /\ UNCHANGED <<db, tx, runDb, xvars, lvars>>

NextPipelineStore ==
    \/ /\ uuids < MaxUuids
       /\ \E r \in PortReturns(AccessTokens) : AcquireAccessToken(r)
    \/ \E r \in PortReturns(SfcTokens) : BuildCredentials(r)
    \/ \E r \in PortReturns(DownloadedBinaries) : Download(r)
    \/ ParseStage
    \/ StoreStage
    \/ Connect
    \/ DeleteStmt
    \/ InsertStmt
    \/ Commit
    \/ ConnectivityFault
    \/ StoreStageReturn
    \/ Return

SpecPipelineStore == Init /\ [][NextPipelineStore]_vars

(***************************************************************************)
(* POST /trigger (asgi.py): the manual trigger runs the pipeline function  *)
(* the startup has built and answers with a JSONResponse                   *)
(***************************************************************************)
\* faults that may leave _pipeline_fn instead of a Result
PipelineFaults == {"RuntimeError"}

JSONResponse(status_code, content) ==
    [status_code |-> status_code, content |-> content]

\* trigger(): "if _pipeline_fn is None"
TriggerUnavailable ==
    JSONResponse(503, [status |-> "unavailable",
                       reason |-> "Pipeline not initialized"])

\* trigger(): the response built from what _pipeline_fn did; str(e) of a
\* fault is its text, str(failure.code) the name of the enum member
TriggerResponse(outcome) ==
    IF outcome.raised
      THEN JSONResponse(500, [status |-> "error", error |-> outcome.exc])
    ELSE IF outcome.value.ok
      THEN JSONResponse(200, [status |-> "success",
                              rows_stored |-> outcome.value.value])
    ELSE JSONResponse(500, [status |-> "failed",
                            error_code |-> "ErrorCode." \o outcome.value.error.code,
                            message |-> outcome.value.error.message])

\* what lifespan() meets at startup.  The logger: structlog's methods take
\* the event as their first parameter `event`; a "lenient" logger accepts any
\* arguments.  The settings: AppSettings() fails validation ("invalid"), is
\* the AppSettings of config.py, whose SchedulerSettings has the field cron
\* only ("config"), or is an object that also has scheduler.interval_hours.
LoggerKinds == {"structlog", "lenient"}
SettingsKinds == {"invalid", "config", "with_interval_hours"}

\* lifespan() up to its `yield`: the fault that ends it, whether
\* "_pipeline_fn = pipeline_fn" was executed before, and the text stored in
\* _error_message (NoneStr when none is stored).  No branch reaches the yield:
\*   log.info("asgi.startup", event=...) passes `event` twice       -> TypeError
\*   AppSettings() raises                      -> stored message, fault re-raised
\*   settings.scheduler.interval_hours is no attribute         -> AttributeError
\*   create_scheduler(..., interval_hours=...) has no such parameter: TypeError
\*     before its body runs, after _pipeline_fn was set; message stored
LifespanStartup(logger, settings) ==
    IF logger = "structlog"
      THEN [exc |-> "TypeError", pipeline_set |-> FALSE, error_message |-> NoneStr]
    ELSE IF settings = "invalid"
      THEN [exc |-> "ValidationError", pipeline_set |-> FALSE,
            error_message |-> "Configuration error: ValidationError"]
    ELSE IF settings = "config"
      THEN [exc |-> "AttributeError", pipeline_set |-> FALSE,
            error_message |-> NoneStr]
    ELSE [exc |-> "TypeError", pipeline_set |-> TRUE,
          error_message |-> "Failed to initialize adapters/scheduler: TypeError"]

\* the server enters lifespan(app); the startup ends with a fault
Startup(logger, settings) ==
    /\ tlifespan = "not_entered"
    /\ tphase = "idle"
    /\ LET started == LifespanStartup(logger, settings)
       IN /\ tinit' = (tinit \/ started.pipeline_set)
          /\ terror' = IF started.error_message = NoneStr
                         THEN terror ELSE started.error_message
    /\ tlifespan' = "failed"
    /\ UNCHANGED <<tphase, tresponse, pvars, svars, xvars, rvars, evars, plog, hvars, cvars>>

\* the embedding code sets the module attribute itself, as the unit tests do
\* before they post to /trigger: "asgi._pipeline_fn = <function>"
AssignPipelineFn ==
    /\ ~tinit
    /\ tphase = "idle"
    /\ tinit' = TRUE
    /\ UNCHANGED <<tlifespan, terror, tphase, tresponse, pvars, svars, xvars, rvars,
                   evars, plog, hvars, cvars>>

\* POST /trigger arrives
TriggerRequest ==
    /\ tphase = "idle"
    /\ pc = "ready"
    /\ IF tinit
         THEN /\ tphase' = "running"
              /\ tresponse' = NoResponse
         ELSE /\ tphase' = "responded"
              /\ tresponse' = TriggerUnavailable
    /\ UNCHANGED <<tinit, tlifespan, terror, pvars, svars, xvars, rvars, evars, plog, hvars, cvars>>

\* await asyncio.to_thread(_pipeline_fn): the pipeline takes a step
TriggerRun ==
    /\ tphase = "running"
    /\ pc # "done"
    /\ NextPipelineStore

\* _pipeline_fn raises: "except Exception as e"
TriggerFault(exc) ==
    /\ tphase = "running"
    /\ pc # "done"
    /\ spc = "idle"
    /\ tresponse' = TriggerResponse(Raised(exc))
    /\ tphase' = "responded"
    /\ pc' = "ready"
    /\ UNCHANGED <<tinit, tlifespan, terror, calls, cur, result, runDb, svars, xvars, rvars, evars,
                   plog, hvars, cvars>>

\* _pipeline_fn returned its Result
TriggerRespond ==
    /\ tphase = "running"
    /\ pc = "done"
    /\ tresponse' = TriggerResponse(Returned(result))
    /\ tphase' = "responded"
    /\ pc' = "ready"
    /\ UNCHANGED <<tinit, tlifespan, terror, calls, cur, result, runDb, svars, xvars, rvars, evars,
                   plog, hvars, cvars>>

\* the response has been sent
TriggerDone ==
    /\ tphase = "responded"
    /\ tphase' = "idle"
    /\ tresponse' = NoResponse
    /\ UNCHANGED <<tinit, tlifespan, terror, pvars, svars, xvars, rvars, evars, plog, hvars, cvars>>

NextTrigger ==
    \/ \E logger \in LoggerKinds, settings \in SettingsKinds : Startup(logger, settings)
    \/ AssignPipelineFn
    \/ TriggerRequest
    \/ TriggerRun
    \/ \E exc \in PipelineFaults : TriggerFault(exc)
    \/ TriggerRespond
    \/ TriggerDone

SpecTrigger == Init /\ [][NextTrigger]_vars

(***************************************************************************)
(* Overlapping store() calls (repository.py, scheduler.py, asgi.py): the   *)
(* scheduled job and the manual trigger run the same pipeline function on  *)
(* two threads, so two _transactional_replace transactions may be open on  *)
(* the same tables.  psycopg.connect(dsn) sets no isolation level: each    *)
(* statement sees the rows committed when it starts plus the writes of its *)
(* own transaction (PostgreSQL READ COMMITTED), a DELETE waits for a row   *)
(* that another open transaction has deleted, and uuid4() ids are fresh.   *)
(***************************************************************************)
MaxStoreCalls == 3   \* store() calls begun by the two callers together

\* numbers of dsc, crl and revoked records of the payloads stored
ConcurrentShapes == {<<1, 0, 0>>, <<0, 1, 1>>}

\* the payload of the n-th call: every id is fresh
ConcurrentPayload(n, shape) ==
    LET base == 1000 * n
    IN MasterListPayload(
         <<>>,
         [i \in 1..shape[1] |->
            CertificateRecord(base + 20 + i, "der", "ski", "aki", "CN=CA", "x500", "icao", "0x2")],
         [i \in 1..shape[2] |->
            CrlRecord(base + 40 + i, "crl", "icao", "CN=CA", "XX")],
         [j \in 1..shape[3] |->
            RevokedCertificateRecord(base + 60 + j, "icao", "XX", "0x3",
                                     base + 40 + (((j - 1) % shape[2]) + 1),
                                     "keyCompromise", "2024-06-15")])

Other(s) == CHOOSE o \in Sessions : o # s

InTransaction(s) == csess[s].pc \in {"stmt", "blocked", "commit"}

\* rows of table t that a statement of session s sees when it starts
SessionView(s, t) == (db[t] \ csess[s].deleted[t]) \cup csess[s].inserted[t]

\* rows another open transaction has deleted and not yet committed
LockedByOther(s, t) ==
    IF InTransaction(Other(s)) THEN csess[Other(s)].deleted[t] ELSE {}

\* an exception leaves the `with` block: rollback, then store returns Failure
SessionRaises(s, exc) ==
    /\ csess' = [csess EXCEPT ![s].pc = "done",
                              ![s].deleted = [t \in Tables |-> {}],
                              ![s].inserted = [t \in Tables |-> {}],
                              ![s].targets = {},
                              ![s].outcome = "failed",
                              ![s].result = StoreResult(Raised(exc))]
    /\ UNCHANGED <<db, ccalls>>

\* the DELETE of session s removes `rows` of table t, unless a row of
\* revoked_certificate_list still references one of them
SessionDelete(s, t, rows) ==
    IF /\ t = "crls"
       /\ \E r \in SessionView(s, "revoked_certificate_list") : r.crl \in Ids(rows)
      THEN SessionRaises(s, "ForeignKeyViolation")
      ELSE /\ csess' = [csess EXCEPT ![s].deleted[t] = @ \cup rows,
                                     ![s].inserted[t] = {},
                                     ![s].targets = {},
                                     ![s].idx = @ + 1,
                                     ![s].pc = "stmt"]
           /\ UNCHANGED <<db, ccalls>>

ConcurrentFrame ==
    UNCHANGED <<pvars, tx, spc, sidx, spayload, sresult, sfault, dbBefore,
                xvars, rvars, evars, plog, hvars, tvars>>

\* repository.store(payload) is called on the thread of session s
SessionStoreCall(s, shape) ==
    /\ csess[s].pc = "idle"
    /\ ccalls < MaxStoreCalls
    /\ ccalls' = ccalls + 1
    /\ csess' = [csess EXCEPT ![s] =
                   [IdleSession EXCEPT
                      !.pc = "connect", !.call = ccalls + 1,
                      !.overlaps = IF InTransaction(Other(s))
                                     THEN csess[Other(s)].call ELSE 0,
                      !.payload = ConcurrentPayload(ccalls + 1, shape)]]
    /\ UNCHANGED db
    /\ ConcurrentFrame

\* psycopg.connect(dsn), conn.transaction(), conn.cursor()
SessionConnect(s) ==
    /\ csess[s].pc = "connect"
    /\ csess' = [csess EXCEPT ![s].pc = "stmt", ![s].idx = 1,
                              ![s].overlaps =
                                 IF @ = 0 /\ InTransaction(Other(s))
                                   THEN csess[Other(s)].call ELSE @]
    /\ UNCHANGED <<db, ccalls>>
    /\ ConcurrentFrame

\* cur.execute("DELETE FROM <table>"): the statement starts
SessionDeleteStmt(s) ==
    /\ csess[s].pc = "stmt"
    /\ csess[s].idx <= Len(Statements(csess[s].payload))
    /\ LET stmt == Statements(csess[s].payload)[csess[s].idx]
           rows == IF stmt.op = "delete" THEN SessionView(s, stmt.table) ELSE {}
       IN /\ stmt.op = "delete"
          /\ IF rows \cap LockedByOther(s, stmt.table) # {}
               THEN /\ csess' = [csess EXCEPT ![s].pc = "blocked", ![s].targets = rows]
                    /\ UNCHANGED <<db, ccalls>>
               ELSE SessionDelete(s, stmt.table, rows)
    /\ ConcurrentFrame

\* the transaction that held the rows has ended: the DELETE goes on with the
\* rows it had found, skipping those the other transaction has removed
SessionDeleteResume(s) ==
    /\ csess[s].pc = "blocked"
    /\ LET stmt == Statements(csess[s].payload)[csess[s].idx]
       IN /\ csess[s].targets \cap LockedByOther(s, stmt.table) = {}
          /\ SessionDelete(s, stmt.table, csess[s].targets \cap SessionView(s, stmt.table))
    /\ ConcurrentFrame

\* cur.execute(_INSERT_..., (rec.id, ...)) for the next record of the payload
SessionInsertStmt(s) ==
    /\ csess[s].pc = "stmt"
    /\ csess[s].idx <= Len(Statements(csess[s].payload))
    /\ LET stmt == Statements(csess[s].payload)[csess[s].idx]
       IN /\ stmt.op = "insert"
          /\ IF ~(InsertAttributes(stmt.table) \subseteq DOMAIN stmt.rec)
               THEN SessionRaises(s, "AttributeError")
             ELSE IF stmt.rec.id \in Ids(SessionView(s, stmt.table))
               THEN SessionRaises(s, "UniqueViolation")
             ELSE IF /\ stmt.table = "revoked_certificate_list"
                     /\ stmt.rec.crl # NoneId
                     /\ stmt.rec.crl \notin Ids(SessionView(s, "crls"))
               THEN SessionRaises(s, "ForeignKeyViolation")
             ELSE /\ csess' = [csess EXCEPT ![s].inserted[stmt.table] = @ \cup {stmt.rec},
                                            ![s].idx = @ + 1]
                  /\ UNCHANGED <<db, ccalls>>
    /\ ConcurrentFrame

\* leaving the `with` block normally: COMMIT, then `return rows`
SessionCommit(s) ==
    /\ csess[s].pc = "stmt"
    /\ csess[s].idx > Len(Statements(csess[s].payload))
    /\ db' = [t \in Tables |-> (db[t] \ csess[s].deleted[t]) \cup csess[s].inserted[t]]
    /\ csess' = [csess EXCEPT ![s].pc = "done",
                              ![s].deleted = [t \in Tables |-> {}],
                              ![s].inserted = [t \in Tables |-> {}],
                              ![s].outcome = "committed",
                              ![s].result =
                                 StoreResult(Returned(InsertAllRows(csess[s].payload)))]
    /\ UNCHANGED ccalls
    /\ ConcurrentFrame

\* the connection of session s fails (connect, any statement, or the commit)
SessionConnectivityFault(s) ==
    /\ csess[s].pc \in {"connect", "stmt", "blocked"}
    /\ SessionRaises(s, "OperationalError")
    /\ ConcurrentFrame

\* store has returned its Result to run_pipeline on that thread
SessionStoreReturn(s) ==
    /\ csess[s].pc = "done"
    /\ csess' = [csess EXCEPT ![s].pc = "idle"]
    /\ UNCHANGED <<db, ccalls>>
    /\ ConcurrentFrame

NextConcurrent ==
    \E s \in Sessions :
        \/ \E shape \in ConcurrentShapes : SessionStoreCall(s, shape)
        \/ SessionConnect(s)
        \/ SessionDeleteStmt(s)
        \/ SessionDeleteResume(s)
        \/ SessionInsertStmt(s)
        \/ SessionCommit(s)
        \/ SessionConnectivityFault(s)
        \/ SessionStoreReturn(s)

SpecConcurrent == Init /\ [][NextConcurrent]_vars

(***************************************************************************)
(* The Result operations on their own: each applied to bounded arguments   *)
(***************************************************************************)
MaxResults == 3   \* longest list handed to all_of

RValues == {"v1", "v2"}
RErrors == {FailureDescription("NOT_FOUND", "missing", NoException),
            FailureDescription("VALIDATION_ERROR", "bad", NoException)}
Results == {Success(v) : v \in RValues} \cup {Failure(e) : e \in RErrors}

Fault == "ZeroDivisionError"

OptionalValues == {Returned(v) : v \in RValues} \cup {ReturnedNone}
OptionalErrors == {Returned(e) : e \in RErrors} \cup {ReturnedNone}

\* outcomes of caller-supplied functions
ValueOutcomes == OptionalValues \cup {Raised(Fault)}
ErrorOutcomes == OptionalErrors \cup {Raised(Fault)}
ResultOutcomes == {Returned(r) : r \in Results} \cup {Raised(Fault)}
BoolOutcomes == {Returned(TRUE), Returned(FALSE), Raised(Fault)}

Mappers == [RValues -> ValueOutcomes]
ResultMappers == [RValues -> ResultOutcomes]
RecoveryFns == [RErrors -> ValueOutcomes]
ErrorMappers == [RErrors -> ErrorOutcomes]
Predicates == [RValues -> BoolOutcomes]
Combiners == [RValues \X RValues -> ValueOutcomes]
Combiners3 ==
    {[t \in RValues \X RValues \X RValues |-> Returned(t[1] \o t[2] \o t[3])],
     [t \in RValues \X RValues \X RValues |-> Returned(t[3])],
     [t \in RValues \X RValues \X RValues |-> ReturnedNone],
     [t \in RValues \X RValues \X RValues |-> Raised(Fault)]}

ComputationCodes == {"DATABASE_ERROR", "TECHNICAL_ERROR"}

\* an operation is called and runs to its end
ResultCall(call, done) ==
    /\ rcall' = call
    /\ rout' = done.out
    /\ rinvoked' = done.invoked
    /\ UNCHANGED <<rawait, pvars, svars, xvars, evars, avars>>

CallSuccess ==
    /\ rcall = NoCall
    /\ \E value \in OptionalValues :
           ResultCall([op |-> "success", value |-> value],
                      Done(ResultSuccess(value), <<>>))

CallFailureFrom ==
    /\ rcall = NoCall
    /\ \E error \in OptionalErrors :
           ResultCall([op |-> "failure_from", error |-> error],
                      Done(FailureFrom(error), <<>>))

CallFailure ==
    /\ rcall = NoCall
    /\ \E code \in ComputationCodes, exception \in {NoException, Fault} :
           ResultCall([op |-> "failure", code |-> code, exception |-> exception],
                      Done(Returned(ResultFailure(code, "failed", exception)), <<>>))

CallFromOptional ==
    /\ rcall = NoCall
    /\ \E value \in OptionalValues, code \in ComputationCodes :
           ResultCall([op |-> "from_optional", value |-> value, code |-> code],
                      Done(FromOptional(value, "value required", code), <<>>))

CallMap ==
    /\ rcall = NoCall
    /\ \E r \in Results, mapper \in Mappers :
           ResultCall([op |-> "map", self |-> r, fn |-> mapper], Map(r, mapper))

CallMapFailure ==
    /\ rcall = NoCall
    /\ \E r \in Results, mapper \in ErrorMappers :
           ResultCall([op |-> "map_failure", self |-> r, fn |-> mapper],
                      MapFailure(r, mapper))

CallFlatMap ==
    /\ rcall = NoCall
    /\ \E r \in Results, mapper \in ResultMappers :
           ResultCall([op |-> "flat_map", self |-> r, fn |-> mapper],
                      FlatMap(r, mapper))

CallEnsure ==
    /\ rcall = NoCall
    /\ \E r \in Results, predicate \in Predicates, error \in OptionalErrors :
           ResultCall([op |-> "ensure", self |-> r, fn |-> predicate, error |-> error],
                      Ensure(r, predicate, error))

CallRecover ==
    /\ rcall = NoCall
    /\ \E r \in Results, recovery_fn \in RecoveryFns :
           ResultCall([op |-> "recover", self |-> r, fn |-> recovery_fn],
                      Recover(r, recovery_fn))

CallFromComputation ==
    /\ rcall = NoCall
    /\ \E computation \in ValueOutcomes, code \in ComputationCodes :
           ResultCall([op |-> "from_computation", computation |-> computation,
                       code |-> code, message |-> "query failed"],
                      Done(Returned(FromComputation(computation, code, "query failed")),
                           <<>>))

CallCombine ==
    /\ rcall = NoCall
    /\ \E ra \in Results, rb \in Results, combiner \in Combiners :
           ResultCall([op |-> "combine", inputs |-> <<ra, rb>>, fn |-> combiner],
                      Combine(ra, rb, combiner))

CallCombine3 ==
    /\ rcall = NoCall
    /\ \E ra \in Results, rb \in Results, rc \in Results, combiner \in Combiners3 :
           ResultCall([op |-> "combine3", inputs |-> <<ra, rb, rc>>, fn |-> combiner],
                      Combine3(ra, rb, rc, combiner))

CallAllOf ==
    /\ rcall = NoCall
    /\ \E results \in SeqsUpTo(Results, MaxResults) :
           ResultCall([op |-> "all_of", inputs |-> results], Done(AllOf(results), <<>>))

\* an async operation on a Success has invoked the mapper and is suspended at
\* `await mapper(v)`: the event loop may run other operations before it goes on
Suspend(call) ==
    /\ rawait = NoCall
    /\ rawait' = [call EXCEPT !.invoked = <<call.self.value>>]
    /\ UNCHANGED <<rcall, rout, rinvoked, pvars, svars, xvars, evars, avars>>

\* await r.map_async(mapper): a Failure returns without awaiting anything
CallMapAsync ==
    /\ rcall = NoCall
    /\ \E r \in Results, mapper \in Mappers :
           LET call == [op |-> "map_async", self |-> r, fn |-> mapper, invoked |-> <<>>]
           IN IF r.ok THEN Suspend(call)
                      ELSE ResultCall([op |-> call.op, self |-> r, fn |-> mapper],
                                      MapAsync(r, mapper))

\* await r.flat_map_async(mapper)
CallFlatMapAsync ==
    /\ rcall = NoCall
    /\ \E r \in Results, mapper \in ResultMappers :
           LET call == [op |-> "flat_map_async", self |-> r, fn |-> mapper, invoked |-> <<>>]
           IN IF r.ok THEN Suspend(call)
                      ELSE ResultCall([op |-> call.op, self |-> r, fn |-> mapper],
                                      FlatMapAsync(r, mapper))

\* the awaited mapper is done and the suspended operation returns, or the task
\* is cancelled at the await: CancelledError is no Exception and propagates
AsyncResume ==
    /\ rcall = NoCall
    /\ rawait # NoCall
    /\ LET done == IF rawait.op = "map_async"
                     THEN MapAsync(rawait.self, rawait.fn)
                     ELSE FlatMapAsync(rawait.self, rawait.fn)
       IN \E cancelled \in BOOLEAN :
             /\ rcall' = [op |-> rawait.op, self |-> rawait.self, fn |-> rawait.fn]
             /\ rout' = IF cancelled THEN Raised("CancelledError") ELSE done.out
             /\ rinvoked' = rawait.invoked
    /\ rawait' = NoCall
    /\ UNCHANGED <<pvars, svars, xvars, evars, avars>>

\* the caller has taken the outcome; another operation may be called
ResultReturn ==
    /\ rcall # NoCall
    /\ rcall' = NoCall
    /\ rout' = NoOutcome
    /\ rinvoked' = <<>>
    /\ UNCHANGED <<rawait, pvars, svars, xvars, evars, avars>>

NextResult ==
    \/ CallSuccess
    \/ CallFailureFrom
    \/ CallFailure
    \/ CallFromOptional
    \/ CallMap
    \/ CallMapFailure
    \/ CallFlatMap
    \/ CallEnsure
    \/ CallRecover
    \/ CallFromComputation
    \/ CallCombine
    \/ CallCombine3
    \/ CallAllOf
    \/ CallMapAsync
    \/ CallFlatMapAsync
    \/ AsyncResume
    \/ ResultReturn

SpecResult == Init /\ [][NextResult]_vars

(***************************************************************************)
(* ResultFailures (railway/result_failures.py)                             *)
(*                                                                         *)
(* An exception is named by its class; the classes are the built-in ones   *)
(* the mapping names, some of their subclasses and some unrelated ones,    *)
(* each with its direct base classes.                                      *)
(***************************************************************************)
ExceptionBases ==
    [cls \in {"BaseException"} |-> {}]
    @@ [cls \in {"Exception", "KeyboardInterrupt"} |-> {"BaseException"}]
    @@ [cls \in {"ValueError", "TypeError", "LookupError", "OSError",
                 "RuntimeError", "ArithmeticError", "AttributeError",
                 "HTTPError"} |-> {"Exception"}]
    @@ [cls \in {"UnicodeError", "JSONDecodeError"} |-> {"ValueError"}]
    @@ [cls \in {"KeyError", "IndexError"} |-> {"LookupError"}]
    @@ [cls \in {"FileNotFoundError", "PermissionError", "TimeoutError",
                 "ConnectionError", "IsADirectoryError"} |-> {"OSError"}]
    @@ [cls \in {"ConnectionRefusedError", "BrokenPipeError"} |-> {"ConnectionError"}]
    @@ [cls \in {"ZeroDivisionError"} |-> {"ArithmeticError"}]
    @@ [cls \in {"UnsupportedOperation"} |-> {"OSError", "ValueError"}]
    @@ [cls \in {"RequestError", "HTTPStatusError"} |-> {"HTTPError"}]
    @@ [cls \in {"TransportError"} |-> {"RequestError"}]
    @@ [cls \in {"TimeoutException", "NetworkError", "ProtocolError"} |->
            {"TransportError"}]
    @@ [cls \in {"ConnectTimeout", "ReadTimeout"} |-> {"TimeoutException"}]
    @@ [cls \in {"ConnectError", "ReadError"} |-> {"NetworkError"}]
    @@ [cls \in {"RemoteProtocolError"} |-> {"ProtocolError"}]

ExceptionClasses == DOMAIN ExceptionBases

\* the classes an instance of cls is an instance of
RECURSIVE ClassesOf(_)
ClassesOf(cls) == {cls} \cup UNION {ClassesOf(b) : b \in ExceptionBases[cls]}

IsInstance(exception, classes) == ClassesOf(exception) \cap classes # {}

\* _map_exception_to_code: the match statement, case by case
MapExceptionToCode_ConnectivityFirst(exception) ==
    IF IsInstance(exception, {"ConnectionError", "OSError"})
      THEN "EXTERNAL_SERVICE_ERROR"
    ELSE IF IsInstance(exception, {"ValueError", "TypeError", "KeyError"})
      THEN "VALIDATION_ERROR"
    ELSE IF IsInstance(exception, {"LookupError", "FileNotFoundError"})
      THEN "NOT_FOUND"
    ELSE "UNKNOWN_ERROR"
MapExceptionToCode(exception) ==
    IF IsInstance(exception, {"ValueError", "TypeError", "KeyError"})
      THEN "VALIDATION_ERROR"
    ELSE IF IsInstance(exception, {"LookupError", "FileNotFoundError"})
      THEN "NOT_FOUND"
    ELSE IF IsInstance(exception, {"PermissionError"})
      THEN "AUTHORIZATION_ERROR"
    ELSE IF IsInstance(exception, {"TimeoutError"})
      THEN "TIMEOUT_ERROR"
    ELSE IF IsInstance(exception, {"ConnectionError", "OSError"})
      THEN "EXTERNAL_SERVICE_ERROR"
    ELSE "UNKNOWN_ERROR"

\* ResultFailures.from_exception(message, exception)
FromException(message, exception) ==
    ResultFailure(MapExceptionToCode(exception), message, exception)

\* ResultFailures.from_exception_auto(exception); str(exception) is its name
FromExceptionAuto(exception) ==
    ResultFailure(MapExceptionToCode(exception), exception, exception)

\* the factories of one message: validation_error, business_rule_error, ...
MessageFactories ==
    [validation_error |-> "VALIDATION_ERROR",
     business_rule_error |-> "BUSINESS_RULE_ERROR",
     authentication_error |-> "AUTHENTICATION_ERROR",
     authorization_error |-> "AUTHORIZATION_ERROR",
     timeout_error |-> "TIMEOUT_ERROR",
     configuration_error |-> "CONFIGURATION_ERROR"]

\* database_error, technical_error, external_service_error(message, exception)
ExceptionFactories ==
    [database_error |-> "DATABASE_ERROR",
     technical_error |-> "TECHNICAL_ERROR",
     external_service_error |-> "EXTERNAL_SERVICE_ERROR"]

\* ResultFailures.not_found(resource_type, identifier)
NotFound(resource_type, identifier) ==
    ResultFailure("NOT_FOUND",
                  resource_type \o " not found with identifier: " \o identifier,
                  NoException)

FailureMessages == {"bad input", "offline", "denied"}

CallFromException ==
    /\ rcall = NoCall
    /\ \E message \in FailureMessages, exception \in ExceptionClasses :
           ResultCall([op |-> "from_exception", message |-> message,
                       exception |-> exception],
                      Done(Returned(FromException(message, exception)), <<>>))

CallFromExceptionAuto ==
    /\ rcall = NoCall
    /\ \E exception \in ExceptionClasses :
           ResultCall([op |-> "from_exception_auto", exception |-> exception],
                      Done(Returned(FromExceptionAuto(exception)), <<>>))

CallFactory ==
    /\ rcall = NoCall
    /\ \/ \E factory \in DOMAIN MessageFactories, message \in FailureMessages :
             ResultCall([op |-> factory, message |-> message],
                        Done(Returned(ResultFailure(MessageFactories[factory],
                                                    message, NoException)), <<>>))
       \/ \E factory \in DOMAIN ExceptionFactories, message \in FailureMessages,
              exception \in {NoException, "ConnectionError"} :
             ResultCall([op |-> factory, message |-> message, exception |-> exception],
                        Done(Returned(ResultFailure(ExceptionFactories[factory],
                                                    message, exception)), <<>>))
       \/ \E resource_type \in {"User", "Order"}, identifier \in {"user-123", "7"} :
             ResultCall([op |-> "not_found", resource_type |-> resource_type,
                         identifier |-> identifier],
                        Done(Returned(NotFound(resource_type, identifier)), <<>>))

NextFailures ==
    \/ CallFromException
    \/ CallFromExceptionAuto
    \/ CallFactory
    \/ ResultReturn

SpecFailures == Init /\ [][NextFailures]_vars

(***************************************************************************)
(* HTTP adapters (adapters/http_client.py)                                 *)
(*                                                                         *)
(* Each adapter method is Result.from_computation around a function        *)
(* decorated with tenacity's @retry(stop_after_attempt(3),                 *)
(* retry_if_exception_type((TimeoutException, NetworkError)),              *)
(* reraise=True): an attempt runs the function once.                       *)
(***************************************************************************)
StopAfterAttempt == 3

HttpAdapters == {"access_token", "sfc_token", "download"}

\* the faults httpx raises for a request and raise_for_status()
TransportFaults ==
    {"ConnectTimeout", "ReadTimeout", "ConnectError", "ReadError",
     "RemoteProtocolError", "HTTPStatusError"}

\* what one run of _do_token_request / _do_login_request / _do_download does
AttemptOutcomes(adapter) ==
    CASE adapter = "access_token" ->
           {Returned(t) : t \in AccessTokens} \cup {ReturnedNone}
             \cup {Raised(exc) : exc \in TransportFaults \cup {"JSONDecodeError", "KeyError"}}
      [] adapter = "sfc_token" ->
           {Returned(t) : t \in SfcTokens} \cup {Raised(exc) : exc \in TransportFaults}
      [] adapter = "download" ->
           {Returned(b) : b \in Binaries} \cup {Raised(exc) : exc \in TransportFaults}

\* retry=retry_if_exception_type(...) and stop=stop_after_attempt(3)
ShouldRetry_AnyFault(outcome, attempt_number) ==
    outcome.raised /\ attempt_number < StopAfterAttempt
ShouldRetry(outcome, attempt_number) ==
    /\ outcome.raised
    /\ IsInstance(outcome.exc, {"TimeoutException", "NetworkError"})
    /\ attempt_number < StopAfterAttempt

\* the arguments each adapter hands to Result.from_computation
AdapterFailure ==
    [access_token |-> [code |-> "AUTHENTICATION_ERROR",
                       message |-> "Access token acquisition failed"],
     sfc_token |-> [code |-> "AUTHENTICATION_ERROR",
                    message |-> "SFC token acquisition failed"],
     download |-> [code |-> "EXTERNAL_SERVICE_ERROR",
                   message |-> "Binary download failed"]]

\* acquire_token() / acquire_token(access_token) / download(credentials)
HttpCall(adapter) ==
    /\ hphase = "idle"
    /\ hadapter' = adapter
    /\ hattempts' = <<>>
    /\ hphase' = "attempting"
    /\ hresult' = NoResult
    /\ UNCHANGED <<pvars, svars, xvars, rvars, evars, plog, tvars, cvars>>

\* one run of the decorated function; tenacity decides what follows
Attempt(outcome) ==
    /\ hphase = "attempting"
    /\ outcome \in AttemptOutcomes(hadapter)
    /\ hattempts' = Append(hattempts, outcome)
    /\ hphase' = IF ShouldRetry(outcome, Len(hattempts) + 1)
                   THEN "backoff" ELSE "finished"
    /\ UNCHANGED <<hadapter, hresult, pvars, svars, xvars, rvars, evars, plog, tvars, cvars>>

\* wait_exponential(multiplier=1, min=0.1, max=30) has slept
Backoff ==
    /\ hphase = "backoff"
    /\ hphase' = "attempting"
    /\ UNCHANGED <<hadapter, hattempts, hresult, pvars, svars, xvars, rvars, evars, plog, tvars, cvars>>

\* the decorated function returned or re-raised (reraise=True) its last
\* outcome; from_computation turns it into the adapter's Result
HttpFinish ==
    /\ hphase = "finished"
    /\ hresult' = FromComputation(hattempts[Len(hattempts)],
                                  AdapterFailure[hadapter].code,
                                  AdapterFailure[hadapter].message)
    /\ hphase' = "done"
    /\ UNCHANGED <<hadapter, hattempts, pvars, svars, xvars, rvars, evars, plog, tvars, cvars>>

\* the caller has the Result
HttpReturn ==
    /\ hphase = "done"
    /\ hadapter' = "none"
    /\ hattempts' = <<>>
    /\ hphase' = "idle"
    /\ hresult' = NoResult
    /\ UNCHANGED <<pvars, svars, xvars, rvars, evars, plog, tvars, cvars>>

NextHttp ==
    \/ \E adapter \in HttpAdapters : HttpCall(adapter)
    \/ \E outcome \in UNION {AttemptOutcomes(a) : a \in HttpAdapters} : Attempt(outcome)
    \/ Backoff
    \/ HttpFinish
    \/ HttpReturn

SpecHttp == Init /\ [][NextHttp]_vars

(***************************************************************************)
(* Execution contexts (railway/execution.py)                               *)
(*                                                                         *)
(* An execute() call is a frame: it is entered, runs what it wraps (the    *)
(* next frame or the computation) and is left with an outcome, a returned  *)
(* Result or a propagating fault.  A session's commit and rollback may     *)
(* themselves raise.                                                       *)
(***************************************************************************)
MaxContexts == 3   \* longest list handed to ComposableExecutionContext

ContextKinds == {"noop", "logging", "tx"}

SessionFault == "OperationalError"

\* NoOpExecutionContext.execute: "return computation()"
NoOpExecute(inner) == inner

\* LoggingExecutionContext.execute with the default NoOp inner context
LoggingExecute_Propagates(inner) == inner
LoggingExecute(inner) ==
    IF inner.raised
      THEN Returned(Failure(FailureDescription(
               "TECHNICAL_ERROR", "Execution failed: " \o inner.exc, inner.exc)))
      ELSE inner

SessionCall(name, raises) == [call |-> name, raised |-> raises]

\* SQLAlchemyTransactionContext.execute, "except Exception as e": rollback,
\* then the DATABASE_ERROR Failure; a fault of this rollback propagates
TxHandler(exc, session, handler_rollback_raises) ==
    [out |-> IF handler_rollback_raises
               THEN Raised(SessionFault)
               ELSE Returned(Failure(FailureDescription(
                        "DATABASE_ERROR", "Transaction failed: " \o exc, exc))),
     session |-> Append(session, SessionCall("rollback", handler_rollback_raises))]

\* SQLAlchemyTransactionContext.execute: the try block
TxExecute_CommitsAlways(inner, commit_raises, rollback_raises, handler_rollback_raises) ==
    IF inner.raised
      THEN TxHandler(inner.exc, <<>>, handler_rollback_raises)
      ELSE IF commit_raises
             THEN TxHandler(SessionFault, <<SessionCall("commit", TRUE)>>,
                            handler_rollback_raises)
             ELSE [out |-> inner, session |-> <<SessionCall("commit", FALSE)>>]
TxExecute(inner, commit_raises, rollback_raises, handler_rollback_raises) ==
    IF inner.raised
      THEN TxHandler(inner.exc, <<>>, handler_rollback_raises)
    ELSE IF inner.value.ok
      THEN IF commit_raises
             THEN TxHandler(SessionFault, <<SessionCall("commit", TRUE)>>,
                            handler_rollback_raises)
             ELSE [out |-> inner, session |-> <<SessionCall("commit", FALSE)>>]
    ELSE IF rollback_raises
           THEN TxHandler(SessionFault, <<SessionCall("rollback", TRUE)>>,
                          handler_rollback_raises)
           ELSE [out |-> inner, session |-> <<SessionCall("rollback", FALSE)>>]

\* ComposableExecutionContext.execute, the loop "for ctx in reversed(...)":
\* `wrapped` lists the contexts around the computation, outermost first
RECURSIVE OnionFrom(_, _, _)
OnionFrom(contexts, k, wrapped) ==
    IF k = 0 THEN wrapped ELSE OnionFrom(contexts, k - 1, <<k>> \o wrapped)

Onion_Unreversed(contexts) ==
    [i \in 1..Len(contexts) |-> Len(contexts) + 1 - i]
Onion(contexts) == OnionFrom(contexts, Len(contexts), <<>>)

\* what a computation handed to execute may do
Computations ==
    {Returned(Success("done")),
     Returned(Failure(FailureDescription("NOT_FOUND", "gone", NoException))),
     Raised("RuntimeError")}

EnterEvent(i) == [ev |-> "enter", ctx |-> i]
CompEvent(out) == [ev |-> "comp", ctx |-> 0, out |-> out]
LeaveEvent(i, got, gave, session) ==
    [ev |-> "leave", ctx |-> i, got |-> got, gave |-> gave, session |-> session]

\* ComposableExecutionContext(*contexts): "if not contexts: raise ValueError"
ConstructComposable(contexts) ==
    /\ ephase = "idle"
    /\ ectxs' = contexts
    /\ IF contexts = <<>>
         THEN /\ ephase' = "rejected"
              /\ eout' = Raised("ValueError")
              /\ eonion' = <<>>
         ELSE /\ ephase' = "constructed"
              /\ eout' = NoOutcome
              /\ eonion' = Onion(contexts)
    /\ UNCHANGED <<edepth, etrace, pvars, svars, xvars, rvars, avars>>

\* composed.execute(computation) is called: "return wrapped()"
ExecuteComposable ==
    /\ ephase = "constructed"
    /\ ephase' = "entering"
    /\ UNCHANGED <<ectxs, eonion, edepth, eout, etrace, pvars, svars, xvars, rvars, avars>>

\* execute(computation) is called on a single context
ExecuteContext(kind) ==
    /\ ephase = "idle"
    /\ ectxs' = <<kind>>
    /\ eonion' = <<1>>
    /\ ephase' = "entering"
    /\ UNCHANGED <<edepth, eout, etrace, pvars, svars, xvars, rvars, avars>>

\* the next context's execute is entered
Enter ==
    /\ ephase = "entering"
    /\ edepth < Len(eonion)
    /\ edepth' = edepth + 1
    /\ etrace' = Append(etrace, EnterEvent(eonion[edepth + 1]))
    /\ UNCHANGED <<ectxs, eonion, ephase, eout, pvars, svars, xvars, rvars, avars>>

\* the innermost context calls computation()
RunComputation(outcome) ==
    /\ ephase = "entering"
    /\ edepth = Len(eonion)
    /\ eout' = outcome
    /\ etrace' = Append(etrace, CompEvent(outcome))
    /\ ephase' = "leaving"
    /\ UNCHANGED <<ectxs, eonion, edepth, pvars, svars, xvars, rvars, avars>>

\* the innermost entered execute() ends with `gave`
LeaveFrame(gave, session) ==
    /\ etrace' = Append(etrace, LeaveEvent(eonion[edepth], eout, gave, session))
    /\ eout' = gave
    /\ edepth' = edepth - 1
    /\ ephase' = IF edepth = 1 THEN "done" ELSE "leaving"
    /\ UNCHANGED <<ectxs, eonion, pvars, svars, xvars, rvars, avars>>

LeaveNoOp ==
    /\ ephase = "leaving"
    /\ edepth > 0
    /\ ectxs[eonion[edepth]] = "noop"
    /\ LeaveFrame(NoOpExecute(eout), <<>>)

LeaveLogging ==
    /\ ephase = "leaving"
    /\ edepth > 0
    /\ ectxs[eonion[edepth]] = "logging"
    /\ LeaveFrame(LoggingExecute(eout), <<>>)

LeaveTx ==
    /\ ephase = "leaving"
    /\ edepth > 0
    /\ ectxs[eonion[edepth]] = "tx"
    /\ \E commit_raises \in BOOLEAN, rollback_raises \in BOOLEAN,
          handler_rollback_raises \in BOOLEAN :
          LET did == TxExecute(eout, commit_raises, rollback_raises,
                               handler_rollback_raises)
          IN LeaveFrame(did.out, did.session)

\* the caller has the outcome (or the constructor's ValueError)
ExecuteReturn ==
    /\ ephase \in {"done", "rejected"}
    /\ ectxs' = <<>>
    /\ eonion' = <<>>
    /\ edepth' = 0
    /\ ephase' = "idle"
    /\ eout' = NoOutcome
    /\ etrace' = <<>>
    /\ UNCHANGED <<pvars, svars, xvars, rvars, avars>>

NextExecution ==
    \/ \E contexts \in SeqsUpTo(ContextKinds, MaxContexts) : ConstructComposable(contexts)
    \/ ExecuteComposable
    \/ \E kind \in ContextKinds : ExecuteContext(kind)
    \/ Enter
    \/ \E outcome \in Computations : RunComputation(outcome)
    \/ LeaveNoOp
    \/ LeaveLogging
    \/ LeaveTx
    \/ ExecuteReturn

SpecExecution == Init /\ [][NextExecution]_vars

(***************************************************************************)
(* Pipeline claims                                                         *)
(***************************************************************************)
PortOrder == <<"access_token_provider", "sfc_token_provider", "downloader",
               "parser", "repository">>

CallCount(port) == Cardinality({i \in DOMAIN calls : calls[i].port = port})

StageFailed(k) ==
    \E i \in DOMAIN calls : calls[i].port = PortOrder[k] /\ ~calls[i].ret.ok

AllCallsOk == \A i \in DOMAIN calls : calls[i].ret.ok

FirstFailedCall ==
    calls[CHOOSE i \in DOMAIN calls :
            /\ ~calls[i].ret.ok
            /\ \A j \in DOMAIN calls : ~calls[j].ret.ok => i <= j]

\* C1: once stage k of a run has returned a Failure, the port of every later
\* stage has call count 0 in that run.
C1_ShortCircuit ==
    \A k \in 1..5 :
        StageFailed(k) => \A m \in (k + 1)..5 : CallCount(PortOrder[m]) = 0

C1_Witness ==
    /\ pc = "done"
    /\ StageFailed(3)
    /\ CallCount("downloader") = 1
    /\ CallCount("parser") = 0
    /\ CallCount("repository") = 0

\* C5: run_pipeline returns Success(n) only when all five stages succeeded,
\* n being the repository's return value; otherwise it returns the Failure of
\* the first failing stage with code, message and cause unchanged.
C5_FirstFailurePreserved ==
    pc = "done" =>
        IF AllCallsOk
          THEN /\ Len(calls) = 5
               /\ result = Success(calls[5].ret.value)
          ELSE /\ ~result.ok
               /\ result.error = FirstFailedCall.ret.error

C5_Witness ==
    /\ pc = "done"
    /\ Len(calls) = 3
    /\ calls[3].ret = ResultFailure("EXTERNAL_SERVICE_ERROR", "503", NoException)
    /\ result.error.code = "EXTERNAL_SERVICE_ERROR"

\* C6: when every port returns Success, the five ports are invoked exactly
\* once each in the fixed order and each receives the value produced before
\* it (access token; AuthCredentials of both tokens; bytes; payload).
C6_OrderAndArguments ==
    (pc = "done" /\ AllCallsOk) =>
        /\ [i \in DOMAIN calls |-> calls[i].port] = PortOrder
        /\ calls[1].arg = NoArg
        /\ calls[2].arg = calls[1].ret.value
        /\ calls[3].arg = [access_token |-> calls[1].ret.value,
                           sfc_token |-> calls[2].ret.value]
        /\ calls[4].arg = calls[3].ret.value
        /\ calls[5].arg = calls[4].ret.value

C6_Witness ==
    /\ pc = "done"
    /\ result = Success(42)
    /\ Len(calls) = 5
    /\ calls[3].arg = [access_token |-> "tokB", sfc_token |-> "sfc1"]

(***************************************************************************)
(* Repository claims                                                       *)
(***************************************************************************)
Range(seq) == {seq[i] : i \in DOMAIN seq}

\* the rows a payload holds for each table
PayloadRows(p) ==
    [t \in Tables |->
        CASE t = "root_ca" -> Range(p.root_cas)
          [] t = "dsc" -> Range(p.dscs)
          [] t = "crls" -> Range(p.crls)
          [] t = "revoked_certificate_list" -> Range(p.revoked_certificates)]

\* C2: when a store call ends with a fault (at connect, a DELETE, an INSERT or
\* the commit), the committed tables equal those before the call and store
\* returns Failure(DATABASE_ERROR).
C2_FaultLeavesTablesIntact ==
    (spc = "done" /\ sfault # "none") =>
        /\ db = dbBefore
        /\ ~sresult.ok
        /\ sresult.error.code = "DATABASE_ERROR"
        /\ sresult.error.message = "Failed to persist certificates to database"

C2_Witness ==
    /\ spc = "done"
    /\ sfault = "constraint"
    /\ sidx > Len(DeleteAll) + 1
    /\ dbBefore["dsc"] # {}
    /\ dbBefore["crls"] # {}
    /\ db = dbBefore

\* C3: after a successful store(B), whatever an earlier successful store(A)
\* left in the tables, every table holds exactly B's records for it and no
\* record of A that is not also B's.
C3_ReplaceLeavesExactlyB ==
    (spc = "done" /\ sresult.ok) =>
        /\ db = PayloadRows(spayload)
        /\ \A t \in Tables : (dbBefore[t] \cap db[t]) \subseteq PayloadRows(spayload)[t]

C3_Witness ==
    /\ spc = "done"
    /\ sresult.ok
    /\ dbBefore["crls"] # {}
    /\ dbBefore["revoked_certificate_list"] # {}
    /\ db["crls"] = {}
    /\ db["revoked_certificate_list"] = {}
    /\ db["dsc"] # {}
    /\ dbBefore["dsc"] \cap db["dsc"] = {}

\* C7: a store call that ends without a database fault returns
\* Success(total_items) and has inserted total_items rows.
C7_RowCountIsTotalItems ==
    (spc = "done" /\ sfault \notin {"connectivity", "constraint"}) =>
        /\ sresult = Success(total_items(spayload))
        /\ Cardinality(UNION {db[t] : t \in Tables}) = total_items(spayload)

(***************************************************************************)
(* Parser claims                                                           *)
(***************************************************************************)
AllWellFormed(ders) == \A i \in DOMAIN ders : ders[i].wellformed

\* the DER blobs embedded in an envelope
InnerDers(r) ==
    IF r.content.present /\ r.content.wellformed THEN r.content.cert_list ELSE <<>>
OuterDers(r) == IF r.certificates.present THEN r.certificates.items ELSE <<>>
CrlDers(r) == IF r.crls.present THEN r.crls.items ELSE <<>>

\* a SignedData envelope that carries the embedded master list and all of
\* whose embedded structures decode (without eContent parse fails)
ValidEnvelope(r) ==
    /\ r.kind = "signed_data"
    /\ r.content.present
    /\ r.content.wellformed
    /\ AllWellFormed(InnerDers(r))
    /\ AllWellFormed(OuterDers(r))
    /\ AllWellFormed(CrlDers(r))

\* C4: for every input that is not a valid signed envelope parse returns
\* Failure(TECHNICAL_ERROR) with a non-empty message (it never raises).
C4_InvalidInputIsTechnicalFailure ==
    (ppc = "parsed" /\ ~ValidEnvelope(raw)) =>
        /\ ~presult.ok
        /\ presult.error.code = "TECHNICAL_ERROR"
        /\ presult.error.message # ""

C4_Witness ==
    /\ ppc = "parsed"
    /\ raw.kind = "wrong_type"
    /\ presult = ResultFailure("TECHNICAL_ERROR",
                               "Failed to parse CMS Master List binary", "TypeError")

\* C8: a valid envelope with N inner and M outer certificates yields N+M
\* root_cas records, the N inner ones first, then the M outer ones.
C8_InnerThenOuter ==
    (ppc = "parsed" /\ ValidEnvelope(raw)) =>
        /\ presult.ok
        /\ LET inner == InnerDers(raw)
               outer == OuterDers(raw)
               root_cas == presult.value.root_cas
           IN /\ Len(root_cas) = Len(inner) + Len(outer)
              /\ \A i \in DOMAIN inner : root_cas[i].certificate = inner[i].der
              /\ \A i \in DOMAIN outer :
                    root_cas[Len(inner) + i].certificate = outer[i].der

C8_Witness ==
    /\ ppc = "parsed"
    /\ ValidEnvelope(raw)
    /\ InnerDers(raw) = <<CertA, CertB, CertA>>
    /\ OuterDers(raw) = <<CertB, CertA>>
    /\ Len(presult.value.root_cas) = 5
    /\ presult.value.root_cas[3].certificate = "certA"
    /\ presult.value.root_cas[4].certificate = "certB"

\* C9: every revocation list with K entries yields one CrlRecord and K
\* revoked records whose crl field is that record's id; every revoked record
\* of a successful payload references exactly one CrlRecord of the payload.
C9_RevokedReferenceParentCrl ==
    (ppc = "parsed" /\ ValidEnvelope(raw)) =>
        /\ presult.ok
        /\ LET ders == CrlDers(raw)
               crls == presult.value.crls
               revoked == presult.value.revoked_certificates
           IN /\ Len(crls) = Len(ders)
              /\ \A k \in DOMAIN ders :
                    /\ crls[k].crl = ders[k].der
                    /\ Cardinality({j \in DOMAIN revoked : revoked[j].crl = crls[k].id})
                         = Len(ders[k].entries)
              /\ \A j \in DOMAIN revoked :
                    Cardinality({k \in DOMAIN crls : crls[k].id = revoked[j].crl}) = 1

C9_Witness ==
    /\ ppc = "parsed"
    /\ presult.ok
    /\ CrlDers(raw) = <<Crl2, Crl5>>
    /\ Len(presult.value.crls) = 2
    /\ Len(presult.value.revoked_certificates) = 7
    /\ presult.value.revoked_certificates[3].crl = presult.value.crls[2].id

\* C10: 3 inner + 2 outer certificates and one CRL with 5 entries give 5
\* root_cas, 1 crls, 5 revoked_certificates and total_items = 11; total_items
\* is the sum of the four list lengths.
C10_ScenarioTotals ==
    (ppc = "parsed" /\ presult.ok) =>
        LET p == presult.value
        IN /\ total_items(p) = Len(p.root_cas) + Len(p.dscs) + Len(p.crls)
                                 + Len(p.revoked_certificates)
           /\ ( /\ Len(InnerDers(raw)) = 3
                /\ Len(OuterDers(raw)) = 2
                /\ Len(CrlDers(raw)) = 1
                /\ Len(CrlDers(raw)[1].entries) = 5 )
              => /\ Len(p.root_cas) = 5
                 /\ Len(p.crls) = 1
                 /\ Len(p.revoked_certificates) = 5
                 /\ total_items(p) = 11

C10_Witness ==
    /\ ppc = "parsed"
    /\ presult.ok
    /\ Len(InnerDers(raw)) = 3
    /\ Len(OuterDers(raw)) = 2
    /\ CrlDers(raw) = <<Crl5>>
    /\ total_items(presult.value) = 11

(***************************************************************************)
(* Claims about the pipeline with the real parser and repository           *)
(***************************************************************************)
\* the bytes the downloader delivered in this run were no valid envelope
DownloadedInvalid ==
    \E i \in DOMAIN calls :
        /\ calls[i].port = "downloader"
        /\ calls[i].ret.ok
        /\ ~ValidEnvelope(calls[i].ret.value)

\* a stage before persistence returned a Failure in this run
FailedBeforeStore ==
    \E i \in DOMAIN calls : calls[i].port # "repository" /\ ~calls[i].ret.ok

\* C11: when a run ends after a failure of credential acquisition, download
\* or parse (in particular whenever the downloaded bytes are no valid
\* envelope), the committed tables equal those at the start of the run.
C11_FailedRunLeavesStoreIntact ==
    (pc = "done" /\ (FailedBeforeStore \/ DownloadedInvalid)) => db = runDb

C11_Witness ==
    /\ pc = "done"
    /\ Len(calls) = 4
    /\ calls[4].port = "parser"
    /\ ~calls[4].ret.ok
    /\ DownloadedInvalid
    /\ runDb["crls"] # {}
    /\ runDb["revoked_certificate_list"] # {}
    /\ db = runDb

(***************************************************************************)
(* Result claims                                                           *)
(***************************************************************************)
\* what the construction Success(f(...)) gives for the outcome m of f: the
\* Success, a TypeError when f returned None, or the fault f raised
SuccessOf(m) ==
    IF m.raised THEN m
    ELSE IF IsNone(m) THEN Raised("TypeError")
    ELSE Returned(Success(m.value))

\* indices of the failing elements of a sequence of Results
FailedIn(inputs) == {i \in DOMAIN inputs : ~inputs[i].ok}
FirstFailedIn(inputs) ==
    CHOOSE i \in FailedIn(inputs) : \A j \in FailedIn(inputs) : i <= j
ValuesOf(inputs) == [i \in DOMAIN inputs |-> inputs[i].value]

\* C12: on a Failure, map and flat_map return a Failure with the same error
\* and do not invoke f; on Success(v) they invoke f once with v, map returns
\* Success(f(v)) and flat_map returns exactly what f(v) gave.
C12_MapAndFlatMap ==
    rcall.op \in {"map", "flat_map"} =>
        IF ~rcall.self.ok
          THEN /\ rout = Returned(Failure(rcall.self.error))
               /\ rinvoked = <<>>
          ELSE /\ rinvoked = <<rcall.self.value>>
               /\ rout = IF rcall.op = "map"
                           THEN SuccessOf(rcall.fn[rcall.self.value])
                           ELSE rcall.fn[rcall.self.value]

C12_Witness ==
    /\ rcall.op = "flat_map"
    /\ rcall.self = Failure(FailureDescription("NOT_FOUND", "missing", NoException))
    /\ rcall.fn["v1"] = Returned(Success("v2"))
    /\ rinvoked = <<>>
    /\ rout.value.error.code = "NOT_FOUND"

\* C13: every Result an operation returns is a Success holding a value or a
\* Failure holding an error description; no operation returns a Success that
\* holds None.
C13_NoNullResult ==
    (rcall # NoCall /\ ~rout.raised) =>
        /\ ~IsNone(rout)
        /\ IF rout.value.ok
             THEN "value" \in DOMAIN rout.value
             ELSE "error" \in DOMAIN rout.value

C13_Witness ==
    /\ rcall.op = "map"
    /\ rcall.self = Success("v1")
    /\ IsNone(rcall.fn["v1"])
    /\ rinvoked = <<"v1">>
    /\ rout = Raised("TypeError")

\* C14 as stated: from_computation returns Success(v) whenever the thunk
\* returns without a fault, and Failure(code, message, cause) when it raises.
C14_Original ==
    rcall.op = "from_computation" =>
        /\ ~rout.raised
        /\ IF rcall.computation.raised
             THEN rout.value = ResultFailure(rcall.code, rcall.message,
                                             rcall.computation.exc)
             ELSE rout.value.ok

\* C14 (amended): from_computation returns Success(v) when the thunk returns
\* a non-null v, Failure(code, message, cause = TypeError) when the thunk
\* returns None, and Failure(code, message, cause = the fault) when the thunk
\* raises; it never propagates the fault.
C14_FromComputation ==
    rcall.op = "from_computation" =>
        /\ ~rout.raised
        /\ rout.value =
             IF rcall.computation.raised
               THEN ResultFailure(rcall.code, rcall.message, rcall.computation.exc)
             ELSE IF IsNone(rcall.computation)
               THEN ResultFailure(rcall.code, rcall.message, "TypeError")
             ELSE Success(rcall.computation.value)

C14_Witness ==
    /\ rcall.op = "from_computation"
    /\ rcall.computation = Raised(Fault)
    /\ rcall.code = "DATABASE_ERROR"
    /\ rout = Returned(ResultFailure("DATABASE_ERROR", "query failed", Fault))

\* C15: combine and combine3 invoke f once, on the values, and return
\* Success(f(values)) when all inputs are Success; otherwise they return the
\* Failure of the first failing input in argument order and do not invoke f.
C15_CombineFirstFailure ==
    rcall.op \in {"combine", "combine3"} =>
        IF FailedIn(rcall.inputs) = {}
          THEN /\ rinvoked = <<ValuesOf(rcall.inputs)>>
               /\ rout = SuccessOf(rcall.fn[ValuesOf(rcall.inputs)])
          ELSE /\ rinvoked = <<>>
               /\ rout = Returned(Failure(
                             rcall.inputs[FirstFailedIn(rcall.inputs)].error))

C15_Witness ==
    /\ rcall.op = "combine"
    /\ ~rcall.inputs[1].ok
    /\ ~rcall.inputs[2].ok
    /\ rcall.inputs[1].error.code = "VALIDATION_ERROR"
    /\ rcall.inputs[2].error.code = "NOT_FOUND"
    /\ rout.value.error.code = "VALIDATION_ERROR"
    /\ rinvoked = <<>>

\* C16: all_of returns the Failure of the lowest-index failing element, and
\* when no element fails Success of the list of all values in their order
\* (Success of the empty list for the empty list).
C16_AllOfFirstFailure ==
    rcall.op = "all_of" =>
        rout = IF FailedIn(rcall.inputs) = {}
                 THEN Returned(Success(ValuesOf(rcall.inputs)))
                 ELSE Returned(Failure(
                         rcall.inputs[FirstFailedIn(rcall.inputs)].error))

C16_Witness ==
    /\ rcall.op = "all_of"
    /\ Len(rcall.inputs) = 3
    /\ rcall.inputs[1].ok
    /\ ~rcall.inputs[2].ok
    /\ ~rcall.inputs[3].ok
    /\ rcall.inputs[2].error # rcall.inputs[3].error
    /\ rout = Returned(Failure(rcall.inputs[2].error))

\* C17 as stated: recover yields a Success for every recovery function: a
\* Success is returned unchanged, a Failure(e) becomes Success(f(e)).
C17_Original ==
    rcall.op = "recover" =>
        /\ ~rout.raised
        /\ rout.value.ok
        /\ rcall.self.ok => rout.value = rcall.self

\* C17 (amended): recover returns a Success unchanged without invoking f; on
\* Failure(e) it invokes f once with e and returns Success(f(e)) when f(e) is
\* a non-null value; when f(e) is None it raises TypeError and when f raises
\* the fault propagates, so no Result is yielded.
C17_RecoverYieldsSuccess ==
    rcall.op = "recover" =>
        IF rcall.self.ok
          THEN rout = Returned(rcall.self) /\ rinvoked = <<>>
          ELSE /\ rinvoked = <<rcall.self.error>>
               /\ rout = SuccessOf(rcall.fn[rcall.self.error])
               /\ ~rout.raised => rout.value.ok

C17_Witness ==
    /\ rcall.op = "recover"
    /\ ~rcall.self.ok
    /\ rcall.fn[rcall.self.error] = Returned("v2")
    /\ rout = Returned(Success("v2"))

(***************************************************************************)
(* Execution-context claims                                                *)
(***************************************************************************)
\* positions in the trace where an execute() of a context of `kind` ended
LeavesOf(kind) ==
    {k \in DOMAIN etrace : etrace[k].ev = "leave" /\ ectxs[etrace[k].ctx] = kind}

\* the session methods an execute() called, in order
SessionCalls(e) == [i \in DOMAIN e.session |-> e.session[i].call]

DatabaseFailure(exc) ==
    Returned(Failure(FailureDescription("DATABASE_ERROR",
                                        "Transaction failed: " \o exc, exc)))

\* C18 as stated: Success -> commit only, Failure -> rollback only, the
\* Result unchanged in both cases; a fault of the computation -> rollback
\* only and Failure(DATABASE_ERROR).
C18_Original ==
    \A k \in LeavesOf("tx") :
        LET e == etrace[k]
        IN IF e.got.raised
             THEN /\ SessionCalls(e) = <<"rollback">>
                  /\ ~e.gave.raised
                  /\ ~e.gave.value.ok
                  /\ e.gave.value.error.code = "DATABASE_ERROR"
           ELSE IF e.got.value.ok
             THEN SessionCalls(e) = <<"commit">> /\ e.gave = e.got
           ELSE SessionCalls(e) = <<"rollback">> /\ e.gave = e.got

\* the except branch after a fault `exc`: one more rollback, then
\* Failure(DATABASE_ERROR), or the fault of that rollback propagating
HandledAs(e, exc, expected) ==
    /\ SessionCalls(e) = expected
    /\ IF e.session[Len(expected)].raised
         THEN e.gave = Raised(SessionFault)
         ELSE e.gave = DatabaseFailure(exc)

\* C18 (amended): on Success execute calls commit and, when commit completes,
\* does not roll back and returns the Result unchanged; on Failure it calls
\* rollback, never commit, and, when rollback completes, returns the Result
\* unchanged; when the computation, the commit or that rollback raises it
\* rolls back and returns Failure(DATABASE_ERROR) with the fault as cause,
\* unless this rollback raises too, whose fault then propagates.
C18_CommitOrRollback ==
    \A k \in LeavesOf("tx") :
        LET e == etrace[k]
        IN IF e.got.raised
             THEN HandledAs(e, e.got.exc, <<"rollback">>)
           ELSE IF e.got.value.ok
             THEN IF e.session[1].raised
                    THEN HandledAs(e, SessionFault, <<"commit", "rollback">>)
                    ELSE SessionCalls(e) = <<"commit">> /\ e.gave = e.got
           ELSE IF e.session[1].raised
                  THEN HandledAs(e, SessionFault, <<"rollback", "rollback">>)
                  ELSE SessionCalls(e) = <<"rollback">> /\ e.gave = e.got

C18_Witness ==
    /\ ephase = "done"
    /\ ectxs = <<"tx">>
    /\ etrace[3].got = Raised("RuntimeError")
    /\ SessionCalls(etrace[3]) = <<"rollback">>
    /\ eout = DatabaseFailure("RuntimeError")

\* C19: LoggingExecutionContext.execute returns the Result of what it wraps
\* unchanged when no fault reaches it, and turns a fault into
\* Failure(TECHNICAL_ERROR) carrying the fault instead of propagating it.
C19_LoggingConvertsFaults ==
    \A k \in LeavesOf("logging") :
        LET e == etrace[k]
        IN IF e.got.raised
             THEN /\ ~e.gave.raised
                  /\ ~e.gave.value.ok
                  /\ e.gave.value.error.code = "TECHNICAL_ERROR"
                  /\ e.gave.value.error.exception = e.got.exc
             ELSE e.gave = e.got

C19_Witness ==
    /\ ephase = "done"
    /\ ectxs = <<"logging">>
    /\ etrace[3].got = Raised("RuntimeError")
    /\ ~eout.raised
    /\ eout.value.error.code = "TECHNICAL_ERROR"
    /\ eout.value.error.message = "Execution failed: RuntimeError"

\* C20: an execution over contexts c1..cn enters c1, ..., cn in that order,
\* runs the computation once inside cn and leaves cn, ..., c1; a
\* ComposableExecutionContext of no contexts is rejected by its constructor
\* with ValueError and never executes.
C20_OnionOrder ==
    /\ ephase = "done" =>
           LET n == Len(ectxs)
           IN /\ Len(etrace) = 2 * n + 1
              /\ \A k \in 1..n : etrace[k] = EnterEvent(k)
              /\ etrace[n + 1].ev = "comp"
              /\ \A k \in 1..n :
                    /\ etrace[n + 1 + k].ev = "leave"
                    /\ etrace[n + 1 + k].ctx = n + 1 - k
    /\ ephase \in {"constructed", "entering", "leaving", "done"} => Len(ectxs) >= 1
    /\ ephase = "rejected" =>
           /\ ectxs = <<>>
           /\ eout = Raised("ValueError")
           /\ etrace = <<>>

C20_Witness ==
    /\ ephase = "done"
    /\ ectxs = <<"logging", "tx", "noop">>
    /\ etrace[1] = EnterEvent(1)
    /\ etrace[3] = EnterEvent(3)
    /\ etrace[4].ev = "comp"
    /\ etrace[5].ctx = 3
    /\ etrace[7].ctx = 1

\* C28: execute returns a Success only if the commit completed, and when the
\* commit faults after the computation returned Success it rolls back and
\* returns Failure(DATABASE_ERROR) in place of the Success.
C28_SuccessOnlyAfterCommit ==
    \A k \in LeavesOf("tx") :
        LET e == etrace[k]
        IN /\ (~e.gave.raised /\ e.gave.value.ok) =>
                e.session = <<SessionCall("commit", FALSE)>>
           /\ (~e.got.raised /\ e.got.value.ok /\ e.session[1].raised) =>
                /\ SessionCalls(e) = <<"commit", "rollback">>
                /\ e.gave = DatabaseFailure(SessionFault)

(***************************************************************************)
(* Claims about the statements of one store transaction                    *)
(***************************************************************************)
\* the statements of the current store call that have been executed
Completed == SubSeq(Statements(spayload), 1, sidx - 1)

\* C26: the deletes of a store transaction run in the order revoked entries,
\* CRLs, document-signer certificates, root-authority certificates, and all
\* four have completed before the first insert is issued.
C26_DeletesBeforeInserts ==
    /\ \A i \in DOMAIN Completed :
          Completed[i].op = "delete" =>
             /\ i <= 4
             /\ Completed[i].table =
                   <<"revoked_certificate_list", "crls", "dsc", "root_ca">>[i]
    /\ \A i \in DOMAIN Completed : Completed[i].op = "insert" => i > 4
    /\ (spc \in {"stmt", "commit"} /\ sidx > 1) =>
          /\ tx.deleted["revoked_certificate_list"] = db["revoked_certificate_list"]
          /\ sidx > 2 => tx.deleted["crls"] = db["crls"]
          /\ sidx > 3 => tx.deleted["dsc"] = db["dsc"]
          /\ sidx > 4 => tx.deleted["root_ca"] = db["root_ca"]
          /\ (\E t \in Tables : tx.inserted[t] # {}) =>
                \A t \in Tables : tx.deleted[t] = db[t]

C26_Witness ==
    /\ spc = "stmt"
    /\ sidx = 6
    /\ Completed[5].op = "insert"
    /\ \A t \in {"dsc", "crls", "revoked_certificate_list"} : db[t] # {}
    /\ tx.inserted["dsc"] # {}

\* every revoked record of the payload references a CRL record of the payload
SelfContained(payload) ==
    \A i \in DOMAIN payload.revoked_certificates :
        \E j \in DOMAIN payload.crls :
            payload.revoked_certificates[i].crl = payload.crls[j].id

\* the foreign key revoked_certificate_list.crl -> crls.id, as the
\* transaction sees the tables
ForeignKeyHolds ==
    \A r \in View("revoked_certificate_list") :
        r.crl = NoneId \/ r.crl \in Ids(View("crls"))

\* C30: in a store transaction every CRL row is inserted before any
\* revoked-entry row, so for a payload whose revoked records all reference
\* CRLs of the same payload the foreign key holds after every statement and
\* no statement is rejected for violating it.
C30_CrlsBeforeRevoked ==
    /\ \A i, j \in DOMAIN Completed :
          (/\ Completed[i].op = "insert" /\ Completed[i].table = "crls"
           /\ Completed[j].op = "insert"
           /\ Completed[j].table = "revoked_certificate_list") => i < j
    /\ (spc \in {"stmt", "commit"}
          /\ tx.inserted["revoked_certificate_list"] # {}) =>
          Ids({spayload.crls[j] : j \in DOMAIN spayload.crls})
             \subseteq Ids(tx.inserted["crls"])
    /\ SelfContained(spayload) =>
          /\ ForeignKeyHolds
          /\ sresult.ok \/ sresult.error.exception # "ForeignKeyViolation"

C30_Witness ==
    /\ spc = "commit"
    /\ SelfContained(spayload)
    /\ Len(spayload.revoked_certificates) = 2
    /\ Len(spayload.crls) = 1
    /\ db["revoked_certificate_list"] # {}
    /\ Cardinality(tx.inserted["revoked_certificate_list"]) = 2

(***************************************************************************)
(* ResultFailures claims                                                   *)
(***************************************************************************)
\* the categories of the mapping, in priority order
FaultCategories ==
    <<[code |-> "VALIDATION_ERROR", classes |-> {"ValueError", "TypeError", "KeyError"}],
      [code |-> "NOT_FOUND", classes |-> {"LookupError", "FileNotFoundError"}],
      [code |-> "AUTHORIZATION_ERROR", classes |-> {"PermissionError"}],
      [code |-> "TIMEOUT_ERROR", classes |-> {"TimeoutError"}],
      [code |-> "EXTERNAL_SERVICE_ERROR", classes |-> {"ConnectionError", "OSError"}]>>

\* positions of the categories the exception belongs to
CategoriesOf(exception) ==
    {i \in DOMAIN FaultCategories : IsInstance(exception, FaultCategories[i].classes)}

\* C24: a mapped fault receives the classification of the earliest category,
\* in the order validation, not-found, permission, timeout, connectivity, it
\* belongs to, and UNKNOWN_ERROR when it belongs to none; KeyError,
\* FileNotFoundError, PermissionError and TimeoutError are therefore not
\* classified by the later categories (LookupError, OSError) they also match.
C24_EarliestCategoryWins ==
    rcall.op \in {"from_exception", "from_exception_auto"} =>
        LET among == CategoriesOf(rcall.exception)
            code == rout.value.error.code
        IN /\ among = {} => code = "UNKNOWN_ERROR"
           /\ among # {} =>
                 \E i \in among : /\ \A j \in among : i <= j
                                  /\ code = FaultCategories[i].code
           /\ rcall.exception = "KeyError" => code = "VALIDATION_ERROR"
           /\ rcall.exception = "FileNotFoundError" => code = "NOT_FOUND"
           /\ rcall.exception = "PermissionError" => code = "AUTHORIZATION_ERROR"
           /\ rcall.exception = "TimeoutError" => code = "TIMEOUT_ERROR"
           /\ rout.value.error.exception = rcall.exception

C24_Witness ==
    /\ rcall.op = "from_exception"
    /\ rcall.exception = "PermissionError"
    /\ Cardinality(CategoriesOf(rcall.exception)) = 2
    /\ rout.value.error.code = "AUTHORIZATION_ERROR"

(***************************************************************************)
(* Further parser claims                                                   *)
(***************************************************************************)
\* a log event of the latest parse names the certificate with this serial
Logged(event, serial) ==
    \E k \in DOMAIN plog : plog[k].event = event /\ plog[k].serial = serial

\* C22: for each certificate record, absence of the Subject-Key-Identifier or
\* of the Authority-Key-Identifier extension is logged, leaves the field
\* null and does not make extraction fail.
C22_MissingIdentifiersLogged ==
    ppc = "parsed" =>
        /\ ValidEnvelope(raw) => presult.ok
        /\ presult.ok =>
              LET ders == InnerDers(raw) \o OuterDers(raw)
              IN \A k \in DOMAIN ders :
                    LET rec == presult.value.root_cas[k]
                    IN /\ ders[k].ski = NoneStr =>
                            /\ rec.subject_key_identifier = NoneStr
                            /\ Logged("certificate.missing_ski", ders[k].serial)
                       /\ ders[k].aki = NoneStr =>
                            /\ rec.authority_key_identifier = NoneStr
                            /\ \E j \in DOMAIN plog :
                                   /\ plog[j].event \notin
                                         {"certificate.missing_ski", "parser.complete"}
                                   /\ plog[j].serial = ders[k].serial

\* C23: a revocation list without issuer country gives a CrlRecord with null
\* country, an entry without revocation reason gives a revoked record with
\* null reason, neither makes the parse fail, and every revoked record has
\* the country of the CrlRecord it references.
C23_NullCountryAndReason ==
    (ppc = "parsed" /\ ValidEnvelope(raw)) =>
        /\ presult.ok
        /\ LET ders == CrlDers(raw)
               crls == presult.value.crls
               revoked == presult.value.revoked_certificates
           IN /\ \A k \in DOMAIN ders :
                    /\ crls[k].country = ders[k].country
                    /\ \A j \in DOMAIN revoked :
                          revoked[j].crl = crls[k].id =>
                             /\ revoked[j].country = crls[k].country
                             /\ \E n \in DOMAIN ders[k].entries :
                                   /\ ders[k].entries[n].serial = revoked[j].isn
                                   /\ ders[k].entries[n].reason
                                        = revoked[j].revocation_reason
              /\ \A j \in DOMAIN revoked :
                    \E k \in DOMAIN crls : revoked[j].crl = crls[k].id

C23_Witness ==
    /\ ppc = "parsed"
    /\ presult.ok
    /\ CrlDers(raw) = <<Crl2, Crl5>>
    /\ presult.value.crls[1].country = NoneStr
    /\ presult.value.revoked_certificates[1].country = NoneStr
    /\ presult.value.revoked_certificates[1].revocation_reason = "keyCompromise"
    /\ presult.value.revoked_certificates[2].revocation_reason = NoneStr
    /\ presult.value.revoked_certificates[4].country = "FR"
    /\ presult.value.revoked_certificates[4].revocation_reason = NoneStr

\* C29: parse is all-or-nothing: when any single embedded certificate, inner
\* or outer, or any single revocation list does not decode, parse returns a
\* Failure and no payload; a Success payload holds one record for every
\* certificate and every revocation list of the envelope.
C29_AllOrNothing ==
    (ppc = "parsed" /\ raw.kind = "signed_data") =>
        /\ ~(/\ AllWellFormed(InnerDers(raw))
             /\ AllWellFormed(OuterDers(raw))
             /\ AllWellFormed(CrlDers(raw))) =>
               (~presult.ok /\ "value" \notin DOMAIN presult)
        /\ presult.ok =>
              LET certs == InnerDers(raw) \o OuterDers(raw)
                  payload == presult.value
              IN /\ Len(payload.root_cas) = Len(certs)
                 /\ \A k \in DOMAIN certs :
                       payload.root_cas[k].certificate = certs[k].der
                 /\ Len(payload.crls) = Len(CrlDers(raw))
                 /\ \A k \in DOMAIN payload.crls :
                       payload.crls[k].crl = CrlDers(raw)[k].der

C29_Witness ==
    /\ ppc = "parsed"
    /\ raw.kind = "signed_data"
    /\ InnerDers(raw) = <<CertA, CertB, CertBad>>
    /\ OuterDers(raw) = <<CertA>>
    /\ CrlDers(raw) = <<Crl2>>
    /\ ~presult.ok
    /\ presult.error.code = "TECHNICAL_ERROR"

(***************************************************************************)
(* HTTP adapter claims                                                     *)
(***************************************************************************)
\* a transient timeout or connectivity fault
Transient(outcome) ==
    outcome.raised /\ IsInstance(outcome.exc, {"TimeoutException", "NetworkError"})

\* C21: an HTTP adapter call makes at most 3 attempts; an attempt is followed
\* by another one only when it ended in a transient timeout or connectivity
\* fault, so an HTTP error status or a malformed response is never retried;
\* the call ends by returning a Result, Success of the value of the last
\* attempt or the adapter's Failure.
C21_BoundedRetryOfTransientFaults ==
    /\ Len(hattempts) <= 3
    /\ \A i \in DOMAIN hattempts : i < Len(hattempts) => Transient(hattempts[i])
    /\ hphase = "backoff" => Transient(hattempts[Len(hattempts)])
    /\ hphase \in {"finished", "done"} =>
          LET last == hattempts[Len(hattempts)]
          IN Transient(last) => Len(hattempts) = 3
    /\ hphase = "done" =>
          LET last == hattempts[Len(hattempts)]
          IN IF ~last.raised /\ ~IsNone(last)
               THEN hresult = Success(last.value)
               ELSE /\ ~hresult.ok
                    /\ hresult.error.code = AdapterFailure[hadapter].code
                    /\ hresult.error.message = AdapterFailure[hadapter].message

C21_Witness ==
    /\ hphase = "done"
    /\ hadapter = "download"
    /\ hattempts = <<Raised("ConnectTimeout"), Raised("ReadError"),
                     Raised("ReadTimeout")>>
    /\ hresult = ResultFailure("EXTERNAL_SERVICE_ERROR", "Binary download failed",
                               "ReadTimeout")

(***************************************************************************)
(* Manual-trigger claims                                                   *)
(***************************************************************************)
\* C25: at the manual trigger a successful run reports the row count and
\* every unsuccessful run reports the classification code and the message
\* only; the text of an underlying exception is in no response.
C25_NoFaultDetailInResponse ==
    tphase = "responded" =>
        /\ tresponse.status_code = 200 =>
              tresponse.content = [status |-> "success", rows_stored |-> result.value]
        /\ tresponse.status_code = 500 =>
              /\ DOMAIN tresponse.content = {"status", "error_code", "message"}
              /\ tresponse.content.error_code = "ErrorCode." \o result.error.code
              /\ tresponse.content.message = result.error.message
              /\ \A f \in DOMAIN tresponse.content :
                    /\ tresponse.content[f] \notin PipelineFaults
                    /\ tresponse.content[f] # result.error.exception

(***************************************************************************)
(* Claims about overlapping store() calls                                  *)
(***************************************************************************)
\* both callers' latest store() calls committed and one began while the
\* other's transaction was open
OverlappedAndCommitted ==
    /\ \A s \in Sessions : csess[s].outcome = "committed"
    /\ \E s \in Sessions : csess[s].overlaps = csess[Other(s)].call

\* C27: when two overlapping store() calls have both committed, the tables
\* hold exactly the records of one of the two payloads, never a union or a
\* mixture of both.
C27_OnePayloadAfterOverlap ==
    OverlappedAndCommitted =>
        \E s \in Sessions : db = PayloadRows(csess[s].payload)

====
